---- MODULE Spec2Model ----
(***************************************************************************)
(* A model of the twister HTTP server core: the per-connection request /   *)
(* response state machine of server/server.go (prepare, Respond, Hijack,   *)
(* the body reader, the identity and chunked writers, finish and the       *)
(* serveConnection loop), with the parts of package web it calls.          *)
(*                                                                         *)
(* Strings whose bytes matter (header names and values, status text) are   *)
(* sequences of one-character strings, so that lengths, lower-casing and   *)
(* number conversion are computed and not assumed.                         *)
(***************************************************************************)
EXTENDS Integers, Sequences, FiniteSets, TLC

\* ------------------------------------------------------------------------
\* Bounds of the model
\* ------------------------------------------------------------------------

\* Request/response cycles served on one socket.
MaxCycles == 2
\* Calls the handler makes on the request (Respond, Hijack, Read, Write, ...)
\* in one cycle.
MaxOps == 3
\* Largest slice the handler passes to one body Read.
MaxReadLen == 2
\* Largest slice the handler passes to one body Write.
MaxWriteLen == 2
\* Respond filters middleware installs on one request.
MaxFilters == 1

\* ------------------------------------------------------------------------
\* Strings
\* ------------------------------------------------------------------------

UpperLetters ==
    <<"A", "B", "C", "D", "E", "F", "G", "H", "I", "J", "K", "L", "M",
      "N", "O", "P", "Q", "R", "S", "T", "U", "V", "W", "X", "Y", "Z">>
LowerLetters ==
    <<"a", "b", "c", "d", "e", "f", "g", "h", "i", "j", "k", "l", "m",
      "n", "o", "p", "q", "r", "s", "t", "u", "v", "w", "x", "y", "z">>
Digits ==
    <<"0", "1", "2", "3", "4", "5", "6", "7", "8", "9">>

\* The index of ch in the sequence s, 0 when absent.
IndexOf(s, ch) ==
    IF \E i \in 1..Len(s) : s[i] = ch
    THEN CHOOSE i \in 1..Len(s) : s[i] = ch
    ELSE 0

\* strings.ToLower, byte by byte.
ToLower(s) ==
    [i \in 1..Len(s) |->
        IF IndexOf(UpperLetters, s[i]) > 0
        THEN LowerLetters[IndexOf(UpperLetters, s[i])]
        ELSE s[i]]

\* strconv.Atoi: an optional sign and decimal digits; ok is FALSE (and the
\* value 0) for the empty string, a lone sign or any other byte.
RECURSIVE DigitsValue(_, _)
DigitsValue(s, acc) ==
    IF s = <<>> THEN acc
    ELSE DigitsValue(Tail(s), acc * 10 + (IndexOf(Digits, Head(s)) - 1))

Atoi(s) ==
    LET signed == s # <<>> /\ Head(s) \in {"-", "+"}
        body == IF signed THEN Tail(s) ELSE s
        ok == body # <<>> /\ \A i \in 1..Len(body) : IndexOf(Digits, body[i]) > 0
    IN  IF ~ok THEN [val |-> 0, ok |-> FALSE]
        ELSE [val |-> IF signed /\ Head(s) = "-"
                      THEN 0 - DigitsValue(body, 0)
                      ELSE DigitsValue(body, 0),
              ok |-> TRUE]

\* strconv.Itoa for the non-negative numbers the model formats.
RECURSIVE Itoa(_)
Itoa(n) ==
    IF n < 10 THEN <<Digits[n + 1]>>
    ELSE Itoa(n \div 10) \o <<Digits[(n % 10) + 1]>>

\* Header names of package web.
HeaderConnection ==
    <<"C", "o", "n", "n", "e", "c", "t", "i", "o", "n">>
HeaderContentLength ==
    <<"C", "o", "n", "t", "e", "n", "t", "-", "L", "e", "n", "g", "t", "h">>
HeaderContentType ==
    <<"C", "o", "n", "t", "e", "n", "t", "-", "T", "y", "p", "e">>
HeaderExpect ==
    <<"E", "x", "p", "e", "c", "t">>
HeaderSetCookie ==
    <<"S", "e", "t", "-", "C", "o", "o", "k", "i", "e">>
HeaderTransferEncoding ==
    <<"T", "r", "a", "n", "s", "f", "e", "r", "-",
      "E", "n", "c", "o", "d", "i", "n", "g">>

\* Literals of server.go.
StrClose ==
    <<"c", "l", "o", "s", "e">>
StrKeepAlive ==
    <<"k", "e", "e", "p", "-", "a", "l", "i", "v", "e">>
StrChunked ==
    <<"c", "h", "u", "n", "k", "e", "d">>
Str100Continue ==
    <<"1", "0", "0", "-", "c", "o", "n", "t", "i", "n", "u", "e">>
StrDefaultContentType ==
    <<"t", "e", "x", "t", "/", "h", "t", "m", "l", " ",
      "c", "h", "a", "r", "s", "e", "t", "=", "u", "t", "f", "-", "8">>
ProtoHTTP10 ==
    <<"H", "T", "T", "P", "/", "1", ".", "0">>
ProtoHTTP11 ==
    <<"H", "T", "T", "P", "/", "1", ".", "1">>
StrStatusCode ==
    <<"s", "t", "a", "t", "u", "s", " ", "c", "o", "d", "e", " ">>
StrGET ==
    <<"G", "E", "T">>
StrHEAD ==
    <<"H", "E", "A", "D">>

\* Status codes and StatusText of package web (the ones the model uses).
StatusOK == 200
StatusBadRequest == 400
StatusNotModified == 304
StatusText ==
    (StatusOK :> <<"O", "K">>) @@
    (StatusNotModified :>
        <<"N", "o", "t", " ", "M", "o", "d", "i", "f", "i", "e", "d">>)

\* web.ProtocolVersion
ProtocolVersion(major, minor) ==
    major * 1000 + (IF minor > 999 THEN 999 ELSE minor)

\* ------------------------------------------------------------------------
\* web.StringsMap: a map from strings to sequences of strings
\* ------------------------------------------------------------------------

EmptyMap == [k \in {} |-> <<>>]

\* StringsMap.Get: the first value, found only when the key holds a value.
Get(m, key) ==
    IF key \in DOMAIN m /\ Len(m[key]) > 0
    THEN [value |-> m[key][1], found |-> TRUE]
    ELSE [value |-> <<>>, found |-> FALSE]

\* StringsMap.GetDef
GetDef(m, key, def) ==
    IF key \in DOMAIN m /\ Len(m[key]) > 0 THEN m[key][1] ELSE def

\* StringsMap.Append
MapAppend(m, key, value) ==
    [k \in DOMAIN m \cup {key} |->
        IF k = key
        THEN (IF key \in DOMAIN m THEN m[key] ELSE <<>>) \o <<value>>
        ELSE m[k]]

\* m[key]: every value of the key, none when absent.
GetAll(m, key) ==
    IF key \in DOMAIN m THEN m[key] ELSE <<>>

\* StringsMap.Set
MapSet(m, key, value) ==
    [k \in DOMAIN m \cup {key} |-> IF k = key THEN <<value>> ELSE m[k]]

\* header[key] = nil, false
MapDelete(m, key) ==
    [k \in DOMAIN m \ {key} |-> m[k]]

\* ------------------------------------------------------------------------
\* The requests a client sends (the parsed request line and header block)
\* ------------------------------------------------------------------------

StrPOST ==
    <<"P", "O", "S", "T">>
StrKeepAliveMixed ==
    <<"K", "e", "e", "p", "-", "A", "l", "i", "v", "e">>

\* The requests of the connection model. A header's values are <<>> when
\* the header is absent.
Methods == {StrGET}
\* HTTP/major.minor of the request line.
Versions == {<<1, 0>>, <<1, 1>>}
ConnectionOpts == {<<>>, <<StrClose>>, <<StrKeepAliveMixed>>}
ContentLengthOpts == {<<>>, << <<"2">> >>, << <<"x">> >>}
ExpectOpts == {<<>>, <<Str100Continue>>}

\* The header map parseHeader returns for the chosen header lines; a key is
\* present exactly when a line with that name was sent.
RequestHeader(conn, clen, expect) ==
    LET keys == (IF conn # <<>> THEN {HeaderConnection} ELSE {}) \cup
                (IF clen # <<>> THEN {HeaderContentLength} ELSE {}) \cup
                (IF expect # <<>> THEN {HeaderExpect} ELSE {})
    IN  [k \in keys |->
            IF k = HeaderConnection THEN conn
            ELSE IF k = HeaderContentLength THEN clen
            ELSE expect]

\* strings.ToUpper, byte by byte.
ToUpper(s) ==
    [i \in 1..Len(s) |->
        IF IndexOf(LowerLetters, s[i]) > 0
        THEN UpperLetters[IndexOf(LowerLetters, s[i])]
        ELSE s[i]]

\* A header name stored as the client wrote it.
HeaderNameAsWritten(name) ==
    name

\* web.HeaderName: the first letter of each word between hyphens in upper
\* case, every other letter in lower case.
HeaderName(name) ==
    [i \in 1..Len(name) |->
        IF i = 1 \/ name[i - 1] = "-"
        THEN ToUpper(<<name[i]>>)[1]
        ELSE ToLower(<<name[i]>>)[1]]

\* web.NewRequest: the fields of the request the connection reads. filters
\* is the number of respondFilter wrappers around the connection in
\* req.Responder (none when the request is created).
NewRequest(method, version, header) ==
    LET cl == Get(header, HeaderContentLength)
        n == Atoi(cl.value)
    IN  IF cl.found /\ ~n.ok
        THEN [ok |-> FALSE]
        ELSE [ok |-> TRUE,
              req |-> [Method |-> ToUpper(method),
                       ProtocolVersion |-> version,
                       Header |-> header,
                       ContentLength |->
                           IF cl.found THEN n.val
                           ELSE IF method # StrHEAD /\ method # StrGET THEN -1
                           ELSE 0,
                       filters |-> 0]]

\* ------------------------------------------------------------------------
\* conn.prepare
\* ------------------------------------------------------------------------

\* c.requestAvail = req.ContentLength, 0 when negative.
PrepareRequestAvail(contentLength) ==
    IF contentLength < 0 THEN 0 ELSE contentLength

\* c.write100Continue: the Expect header, lower-cased, is 100-continue.
PrepareWrite100Continue(header) ==
    LET e == Get(header, HeaderExpect)
    IN  e.found /\ ToLower(e.value) = Str100Continue

\* A prepare that compares the Connection header as the client wrote it.
PrepareCloseCaseSensitive(version, contentLength, header) ==
    LET connection == GetDef(header, HeaderConnection, <<>>)
    IN  IF version >= ProtocolVersion(1, 1)
        THEN connection = StrClose
        ELSE IF version = ProtocolVersion(1, 0) /\ contentLength >= 0
        THEN connection # StrKeepAlive
        ELSE TRUE

\* c.closeAfterResponse as prepare decides it.
PrepareCloseAfterResponse(version, contentLength, header) ==
    LET connection == ToLower(GetDef(header, HeaderConnection, <<>>))
    IN  IF version >= ProtocolVersion(1, 1)
        THEN connection = StrClose
        ELSE IF version = ProtocolVersion(1, 0) /\ contentLength >= 0
        THEN connection # StrKeepAlive
        ELSE TRUE

\* conn{netConn: netConn, br: br}: every other field is zero.
NewConn ==
    [br |-> "br", bw |-> "nil", chunked |-> FALSE, closeAfterResponse |-> FALSE,
     hijacked |-> FALSE, netConn |-> "sock", req |-> "nil", requestAvail |-> 0,
     requestErr |-> "nil", respondCalled |-> FALSE, responseAvail |-> 0,
     responseErr |-> "nil", write100Continue |-> FALSE]

\* The connection after a successful prepare of request r.
PreparedConn(r) ==
    [NewConn EXCEPT
        !.req = "req",
        !.requestAvail = PrepareRequestAvail(r.ContentLength),
        !.write100Continue = PrepareWrite100Continue(r.Header),
        !.closeAfterResponse =
            PrepareCloseAfterResponse(r.ProtocolVersion, r.ContentLength, r.Header)]

\* ------------------------------------------------------------------------
\* The socket and the buffered response writer
\* ------------------------------------------------------------------------

\* A run of bytes on the socket or in the write buffer. t is what the bytes
\* are: "head" (status line and header block), "data" (body bytes), "size"
\* (a chunk's hex length line), "crlf" (the CRLF closing a chunk), "last"
\* (the terminal chunk 0 CRLF CRLF) or "100" (the interim 100 Continue).
\* n is the number of bytes; a head also records what it says.
Seg(t, n) ==
    [t |-> t, n |-> n, proto |-> <<>>, status |-> 0, text |-> <<>>,
     header |-> EmptyMap]

RECURSIVE SegsLen(_)
SegsLen(segs) ==
    IF segs = <<>> THEN 0 ELSE Head(segs).n + SegsLen(Tail(segs))

\* Bytes appended to bytes: body bytes that follow body bytes are one run.
AppendSegs(segs, more) ==
    IF segs # <<>> /\ more # <<>> /\
       segs[Len(segs)].t = "data" /\ more[1].t = "data"
    THEN SubSeq(segs, 1, Len(segs) - 1) \o
         <<Seg("data", segs[Len(segs)].n + more[1].n)>> \o Tail(more)
    ELSE segs \o more

\* The state one call works on: the conn, its bufio.Writer, the bytes the
\* server has put on the socket in this cycle, and the socket's health.
\* budget is the number of socket writes that still succeed before the peer
\* resets the connection; once broken, every write fails.
\*
\* netConn.Write(p): all of p is written, or nothing and an error.
NetWrite(st, segs) ==
    IF st.broken \/ st.budget = 0
    THEN [st |-> [st EXCEPT !.broken = TRUE], n |-> 0, err |-> "EIO"]
    ELSE [st |-> [st EXCEPT !.wire = AppendSegs(st.wire, segs),
                            !.budget = st.budget - 1],
          n |-> SegsLen(segs), err |-> "nil"]

\* The state after a socket write w whose error becomes c.responseErr.
WithResponseErr(w) ==
    [w.st EXCEPT !.c.responseErr = w.err]

\* identityWriter.Write after its socket write w: the count is taken off
\* responseAvail.
IdentityWritten(st, w) ==
    [st |-> [w.st EXCEPT !.c.responseErr = w.err,
                         !.c.responseAvail = st.c.responseAvail - w.n],
     n |-> w.n, err |-> w.err]

\* identityWriter.Write
IdentityWrite(st, segs) ==
    IF st.c.responseErr # "nil"
    THEN [st |-> st, n |-> 0, err |-> st.c.responseErr]
    ELSE IdentityWritten(st, NetWrite(st, segs))

\* chunkedWriter.Write after the write w3 of the closing CRLF: the count
\* returned on success is 0.
ChunkedAfterCRLF(w3) ==
    [st |-> WithResponseErr(w3), n |-> 0, err |-> w3.err]

\* chunkedWriter.Write after the write w2 of the bytes.
ChunkedAfterData(w2) ==
    IF w2.err # "nil"
    THEN [st |-> WithResponseErr(w2), n |-> w2.n, err |-> w2.err]
    ELSE ChunkedAfterCRLF(NetWrite(WithResponseErr(w2), <<Seg("crlf", 2)>>))

\* chunkedWriter.Write after the write w1 of the size line.
ChunkedAfterSize(w1, segs) ==
    IF w1.err # "nil"
    THEN [st |-> WithResponseErr(w1), n |-> 0, err |-> w1.err]
    ELSE ChunkedAfterData(NetWrite(WithResponseErr(w1), segs))

\* chunkedWriter.Write: the size line, the bytes, CRLF.
ChunkedWrite(st, segs) ==
    IF st.c.responseErr # "nil"
    THEN [st |-> st, n |-> 0, err |-> st.c.responseErr]
    ELSE IF SegsLen(segs) = 0
    THEN [st |-> st, n |-> 0, err |-> "nil"]
    ELSE ChunkedAfterSize(NetWrite(st, <<Seg("size", SegsLen(segs))>>), segs)

\* The io.Writer a bufio.Writer wraps: the chunked or the identity writer of
\* the connection, or the socket itself (the writer of a WebSocketConn).
UnderlyingWrite(st, segs) ==
    IF st.bw.kind = "chunked" THEN ChunkedWrite(st, segs)
    ELSE IF st.bw.kind = "socket" THEN NetWrite(st, segs)
    ELSE IdentityWrite(st, segs)

\* The size of the buffer bufio.NewWriter allocates.
BufSize == 4096

\* No bufio.Writer (c.bw is nil).
NoWriter == [kind |-> "none", buf |-> <<>>, err |-> "nil"]

\* bufio.Writer.Flush after the write w of the buffer buf: a write that
\* reports no progress and no error is io.ErrShortWrite; on an error the
\* unwritten bytes stay buffered and the error sticks.
BufFlushed(buf, w) ==
    IF w.n = 0 /\ w.err = "nil"
    THEN [w.st EXCEPT !.bw.err = "ErrShortWrite", !.bw.buf = buf]
    ELSE IF w.err # "nil"
    THEN [w.st EXCEPT !.bw.err = w.err,
                      !.bw.buf = IF w.n = 0 THEN buf ELSE <<>>]
    ELSE [w.st EXCEPT !.bw.buf = <<>>]

\* bufio.Writer.Flush: one Write of the whole buffer to the wrapped writer.
BufFlush(st) ==
    IF st.bw.err # "nil" \/ st.bw.buf = <<>>
    THEN st
    ELSE BufFlushed(st.bw.buf, UnderlyingWrite(st, st.bw.buf))

\* The bytes of seg that fit into the buffer of s1.
BufFit(s1, seg) ==
    IF BufSize - SegsLen(s1.bw.buf) > seg.n
    THEN seg.n
    ELSE BufSize - SegsLen(s1.bw.buf)

RECURSIVE BufWrite(_, _, _)
\* bufio.Writer.Write from the state s1 in which the buffer has room: the
\* bytes that fit are copied, and the write goes on with the rest.
BufCopy(s1, seg, nn) ==
    IF s1.bw.err # "nil"
    THEN [st |-> s1, nn |-> nn, err |-> s1.bw.err]
    ELSE BufWrite(
           [s1 EXCEPT !.bw.buf = AppendSegs(@, <<[seg EXCEPT !.n = BufFit(s1, seg)]>>)],
           [seg EXCEPT !.n = seg.n - BufFit(s1, seg)], nn + BufFit(s1, seg))

\* bufio.Writer.Write of seg: returns the state and the count accepted. The
\* bytes are copied into the buffer; when the buffer is full it is flushed
\* and the copy goes on.
BufWrite(st, seg, nn) ==
    IF st.bw.err # "nil" \/ seg.n = 0
    THEN [st |-> st, nn |-> nn, err |-> st.bw.err]
    ELSE BufCopy(IF BufSize - SegsLen(st.bw.buf) <= 0 THEN BufFlush(st) ELSE st,
                 seg, nn)

\* ------------------------------------------------------------------------
\* conn.Respond
\* ------------------------------------------------------------------------

\* cleanHeaderValue: every CR and LF becomes a space.
cleanHeaderValue(s) ==
    [i \in 1..Len(s) |-> IF s[i] \in {"\r", "\n"} THEN " " ELSE s[i]]

RECURSIVE ValuesLen(_, _)
\* The bytes of the header lines "key: value CRLF" of one key.
ValuesLen(key, values) ==
    IF values = <<>> THEN 0
    ELSE Len(key) + 2 + Len(cleanHeaderValue(Head(values))) + 2
         + ValuesLen(key, Tail(values))

RECURSIVE HeaderLinesLen(_)
\* The bytes of all header lines of a header map.
HeaderLinesLen(header) ==
    IF DOMAIN header = {} THEN 0
    ELSE LET k == CHOOSE k \in DOMAIN header : TRUE
         IN  ValuesLen(k, header[k]) + HeaderLinesLen(MapDelete(header, k))

\* The response head Respond formats: the status line, one line per header
\* value (cleaned), and the blank line.
ResponseHead(version, status, header) ==
    LET proto == IF version >= ProtocolVersion(1, 1) THEN ProtoHTTP11 ELSE ProtoHTTP10
        statusString == Itoa(status)
        text == IF status \in DOMAIN StatusText THEN StatusText[status]
                ELSE StrStatusCode \o statusString
    IN  [t |-> "head",
         n |-> Len(proto) + 1 + Len(statusString) + 1 + Len(text) + 2
               + HeaderLinesLen(header) + 2,
         proto |-> proto, status |-> status, text |-> text,
         header |-> [k \in DOMAIN header |->
                        [i \in 1..Len(header[k]) |-> cleanHeaderValue(header[k][i])]]]

\* A Respond that forgets it was already called.
RespondRefusedHijackedOnly(cn) ==
    cn.hijacked

\* A Respond that does not look at hijacked.
RespondRefusedCalledOnly(cn) ==
    cn.respondCalled

\* The one-shot guard: Respond does nothing on a hijacked connection or
\* when it was already called.
RespondRefused(cn) ==
    cn.hijacked \/ cn.respondCalled

\* A Transfer-Encoding header of the caller is removed.
RespondStripTransferEncoding(header) ==
    IF Get(header, HeaderTransferEncoding).found
    THEN MapDelete(header, HeaderTransferEncoding)
    ELSE header

\* A Respond that does not look at the unread request body.
RespondUnreadCloseIgnored(requestAvail, close) ==
    close

\* Unread request body bytes force close-after-response.
RespondUnreadClose(requestAvail, close) ==
    IF requestAvail > 0 THEN TRUE ELSE close

\* Framing selection: chunked unless the status is 304 or a Content-Length
\* is given; a request below HTTP/1.1 without a length closes.
RespondFraming(status, header, version, close) ==
    LET cl == Get(header, HeaderContentLength)
    IN  IF status = StatusNotModified
        THEN [chunked |-> FALSE, responseAvail |-> 0, close |-> close,
              header |-> MapDelete(MapDelete(header, HeaderContentType),
                                   HeaderContentLength)]
        ELSE IF cl.found
        THEN [chunked |-> FALSE, responseAvail |-> Atoi(cl.value).val,
              close |-> close, header |-> header]
        ELSE IF version < ProtocolVersion(1, 1)
        THEN [chunked |-> TRUE, responseAvail |-> 0, close |-> TRUE,
              header |-> header]
        ELSE [chunked |-> TRUE, responseAvail |-> 0, close |-> close,
              header |-> header]

\* A close override that does not tell the client.
RespondCloseOverrideSilent(f) ==
    IF f.close THEN [f EXCEPT !.chunked = FALSE] ELSE f

\* Close-after-response advertises Connection: close and is never chunked.
RespondCloseOverride(f) ==
    IF f.close
    THEN [f EXCEPT !.header = MapSet(@, HeaderConnection, StrClose),
                   !.chunked = FALSE]
    ELSE f

\* Chunked framing is advertised.
RespondAdvertiseChunked(f) ==
    IF f.chunked
    THEN [f EXCEPT !.header = MapSet(@, HeaderTransferEncoding, StrChunked)]
    ELSE f

\* conn.Respond, the fields it sets before it formats the head: framing f
\* is recorded and c.bw is a new bufio.Writer on the writer f chooses.
RespondStarted(st, f) ==
    [st EXCEPT !.c.respondCalled = TRUE,
               !.c.requestErr = "ErrInvalidState",
               !.c.closeAfterResponse = f.close,
               !.c.chunked = f.chunked,
               !.c.responseAvail = f.responseAvail,
               !.c.bw = "bw",
               !.bw = [kind |-> IF f.chunked THEN "chunked" ELSE "identity",
                       buf |-> <<>>, err |-> "nil"]]

\* conn.Respond, its last step: the head of a chunked response goes to the
\* socket, the head of any other response into c.bw.
RespondEmit(s1, chunked, head) ==
    IF chunked
    THEN [st |-> WithResponseErr(NetWrite(s1, <<head>>)), ret |-> "bw"]
    ELSE [st |-> BufWrite(s1, head, 0).st, ret |-> "bw"]

\* conn.Respond once framing f is decided.
RespondFramed(st, version, status, f) ==
    RespondEmit(RespondStarted(st, f), f.chunked,
                ResponseHead(version, status, f.header))

\* conn.Respond on request rq: the state after the call and what it returns
\* ("bw", the body writer, or "nil").
ConnRespond(st, rq, status, header) ==
    IF RespondRefused(st.c)
    THEN [st |-> st, ret |-> "nil"]
    ELSE RespondFramed(st, rq.ProtocolVersion, status,
             RespondAdvertiseChunked(RespondCloseOverride(
                 RespondFraming(status, RespondStripTransferEncoding(header),
                                rq.ProtocolVersion,
                                RespondUnreadClose(st.c.requestAvail,
                                                   st.c.closeAfterResponse)))))

\* The header value the XSRF respond filter of ProcessForm appends.
StrCookie ==
    <<"x", "s", "r", "f", "=", "0", "a", "1", "b", "2", "c", "3", "d", ";",
      " ", "p", "a", "t", "h", "=", "/">>

RECURSIVE FilterHeader(_, _)
\* respondFilter.Respond, through a chain of depth filters: each filter
\* appends its Set-Cookie value and calls the responder it wraps.
FilterHeader(header, depth) ==
    IF depth = 0 THEN header
    ELSE FilterHeader(MapAppend(header, HeaderSetCookie, StrCookie), depth - 1)

\* req.Responder.Respond(status, header): the filters, then the connection.
ResponderRespond(st, rq, status, header) ==
    ConnRespond(st, rq, status, FilterHeader(header, rq.filters))

\* ------------------------------------------------------------------------
\* conn.Hijack and requestReader.Read
\* ------------------------------------------------------------------------

\* The interim response the body reader writes.
StrContinueResponse ==
    <<"H", "T", "T", "P", "/", "1", ".", "1", " ", "1", "0", "0", " ",
      "C", "o", "n", "t", "i", "n", "u", "e", "\r", "\n", "\r", "\n">>

\* A Hijack that does not look at respondCalled.
ConnHijackUnchecked(cn) ==
    IF cn.br = "nil"
    THEN [c |-> cn, conn |-> "nil", err |-> "nil", panic |-> TRUE]
    ELSE [c |-> [cn EXCEPT !.hijacked = TRUE,
                           !.requestErr = "ErrInvalidState",
                           !.responseErr = "ErrInvalidState",
                           !.req = "nil", !.br = "nil", !.netConn = "nil"],
          conn |-> cn.netConn, err |-> "nil", panic |-> FALSE]

\* conn.Hijack: what the call returns and the conn after it. A second call
\* on a hijacked connection dereferences the nil c.br.
ConnHijack(cn) ==
    IF cn.respondCalled
    THEN [c |-> cn, conn |-> "nil", err |-> "ErrInvalidState", panic |-> FALSE]
    ELSE IF cn.br = "nil"
    THEN [c |-> cn, conn |-> "nil", err |-> "nil", panic |-> TRUE]
    ELSE [c |-> [cn EXCEPT !.hijacked = TRUE,
                           !.requestErr = "ErrInvalidState",
                           !.responseErr = "ErrInvalidState",
                           !.req = "nil", !.br = "nil", !.netConn = "nil"],
          conn |-> cn.netConn, err |-> "nil", panic |-> FALSE]

\* A Read that writes the interim response and leaves write100Continue set.
ReadWrite100ContinueKept(st) ==
    IF st.c.write100Continue
    THEN NetWrite(st, <<Seg("100", Len(StrContinueResponse))>>).st
    ELSE st

\* requestReader.Read, its write of the interim response: once, before the
\* first read of the body; the result of the write is dropped.
ReadWrite100Continue(st) ==
    IF st.c.write100Continue
    THEN [NetWrite(st, <<Seg("100", Len(StrContinueResponse))>>).st
            EXCEPT !.c.write100Continue = FALSE]
    ELSE st

\* requestReader.Read, the read of n bytes from c.br; none is an error.
ReadBody(s1, n) ==
    [st |-> [s1 EXCEPT !.c.requestErr = IF n = 0 THEN "EOF" ELSE "nil",
                       !.c.requestAvail = s1.c.requestAvail - n],
     n |-> n, err |-> IF n = 0 THEN "EOF" ELSE "nil"]

\* The smallest of three counts.
Min3(x, y, z) ==
    IF x <= y /\ x <= z THEN x ELSE IF y <= z THEN y ELSE z

\* A Read that does not cut the slice down to what is left of the body.
ReadAvailUnbounded(s1, len, got) ==
    IF s1.c.requestAvail <= 0
    THEN [st |-> [s1 EXCEPT !.c.requestErr = "EOF"], n |-> 0, err |-> "EOF"]
    ELSE ReadBody(s1, IF got <= len THEN got ELSE len)

\* requestReader.Read from the state s1 after the interim response.
ReadAvail(s1, len, got) ==
    IF s1.c.requestAvail <= 0
    THEN [st |-> [s1 EXCEPT !.c.requestErr = "EOF"], n |-> 0, err |-> "EOF"]
    ELSE ReadBody(s1, Min3(got, len, s1.c.requestAvail))

\* requestReader.Read(p) with len(p) = len. got is what c.br.Read then
\* returns: a count of at least one byte, or 0 for an error (the client went
\* away). Returns the state, the count and the error.
ConnRead(st, len, got) ==
    IF st.c.requestErr # "nil"
    THEN [st |-> st, n |-> 0, err |-> st.c.requestErr]
    ELSE ReadAvail(ReadWrite100Continue(st), len, got)

\* ------------------------------------------------------------------------
\* conn.finish
\* ------------------------------------------------------------------------

\* The terminal chunk 0 CRLF CRLF.
StrLastChunk ==
    <<"0", "\r", "\n", "\r", "\n">>

\* A finish that responds on the connection, past the request's responder.
FinishDefaultRespondDirect(st, rq) ==
    IF ~st.c.respondCalled
    THEN ConnRespond(st, rq, StatusOK,
             MapAppend(EmptyMap, HeaderContentType, StrDefaultContentType)).st
    ELSE st

\* The default response of a handler that never called Respond: status 200
\* with a Content-Type, through the request's current responder.
FinishDefaultRespond(st, rq) ==
    IF ~st.c.respondCalled
    THEN ResponderRespond(st, rq, StatusOK,
             MapAppend(EmptyMap, HeaderContentType, StrDefaultContentType)).st
    ELSE st

\* A fixed length that was not used up forces close.
FinishLengthCheck(cn) ==
    IF cn.responseAvail # 0 THEN [cn EXCEPT !.closeAfterResponse = TRUE] ELSE cn

\* A finish that leaves the chunked body open.
FinishLastChunkMissing(st) ==
    st

\* The terminal chunk of a chunked response; its result replaces
\* responseErr.
FinishLastChunk(st) ==
    IF st.c.chunked
    THEN WithResponseErr(NetWrite(st, <<Seg("last", Len(StrLastChunk))>>))
    ELSE st

\* finish flushes the body writer after the length check.
FinishFlush(s1) ==
    BufFlush([s1 EXCEPT !.c = FinishLengthCheck(s1.c)])

\* The end of finish: responseErr is set, and netConn, br and bw are nil.
FinishRelease(s3) ==
    [s3 EXCEPT !.c.responseErr = IF @ = "nil" THEN "ErrInvalidState" ELSE @,
               !.c.netConn = "nil", !.c.br = "nil", !.c.bw = "nil",
               !.bw = NoWriter]

\* conn.finish
ConnFinish(st, rq) ==
    FinishRelease(FinishLastChunk(FinishFlush(FinishDefaultRespond(st, rq))))

\* ------------------------------------------------------------------------
\* State
\* ------------------------------------------------------------------------

VARIABLES
    pc,          \* where serveConnection is: "prepare" (about to parse a
                 \* request), "handler" (inside handler.ServeWeb), "closed"
                 \* (left the loop and closed the socket), "hijacked"
                 \* (returned without closing), "panic" (a runtime error)
    cycles,      \* requests prepared on this socket so far
    closes,      \* calls of netConn.Close by serveConnection
    broken,      \* the peer has reset the connection: socket writes fail
    c,           \* the conn of the current cycle
    req,         \* the web.Request of the current cycle
    bw,          \* the bufio.Writer c.bw points to
    wire,        \* what the server wrote to the socket in this cycle
    ops,         \* calls the handler has made in this cycle
    last,        \* the handler's latest call and what it returned
    bodyRead,    \* request body bytes the reader has returned in this cycle
    bodyWritten, \* response body bytes the body writer has accepted
    respondArg,  \* status and header of the call conn.Respond accepted
    finished,    \* finish has run in this cycle, and whether it responded
    input,       \* the lines the client sent for the request being prepared
    rd,          \* the bytes the client sent after the header block: in the
                 \* bufio.Reader, still on the socket, and who has taken which
    router,      \* a Router, the request it is asked to serve and the outcome
    ws,          \* a WebSocket upgrade: the bytes of the peer, the writer
                 \* and reader of the WebSocketConn, what was sent and received
    form,        \* a Request whose form is parsed: its fields, its body and
                 \* what the calls of ParseForm returned
    outgoing,    \* the response body a handler hands to the body writer:
                 \* the bytes it passed to Write, call by call
    parsing,     \* parseHeader at work, line by line: the header map, the
                 \* last key and the header count so far, the lines not yet
                 \* read and how it ended
    chat         \* the chat example: the hub, the handlers of the chat
                 \* connections and their WebSocket connections

\* The variables of the connection loop.
connVars ==
    <<pc, cycles, closes, broken, c, req, bw, wire, ops, last, bodyRead,
      bodyWritten, respondArg, finished>>

vars ==
    <<connVars, form, outgoing, chat, parsing, input, rd, router, ws>>

\* No request yet.
NoRequest ==
    [Method |-> <<>>, ProtocolVersion |-> 0, Header |-> EmptyMap,
     ContentLength |-> 0, filters |-> 0]

\* What a handler call returned: op is the call, ret the writer of Respond
\* ("bw" or "nil"), conn the socket of Hijack, n a byte count, err the error.
Result(op, ret, conn, n, err) ==
    [op |-> op, ret |-> ret, conn |-> conn, n |-> n, err |-> err]

NoResult == Result("none", "nil", "nil", 0, "nil")

NoRespondArg == [called |-> FALSE, status |-> 0, header |-> EmptyMap]

NotFinished == [ran |-> FALSE, defaulted |-> FALSE]

\* serveConnection before its first iteration: bufio.NewReader(netConn).
InitConn ==
    /\ pc = "prepare"
    /\ cycles = 0
    /\ closes = 0
    /\ broken = FALSE
    /\ c = NewConn
    /\ req = NoRequest
    /\ bw = NoWriter
    /\ wire = <<>>
    /\ ops = 0
    /\ last = NoResult
    /\ bodyRead = 0
    /\ bodyWritten = 0
    /\ respondArg = NoRespondArg
    /\ finished = NotFinished

\* Nothing is said about the bytes of the request, the bytes behind it or a
\* router: the connection loop draws what prepare and the body reader
\* return.
NoInput == <<>>
NoReader == <<>>
NoRouter == <<>>
NoWebSocket == [state |-> "none"]
NoForm == <<>>
NoOut == <<>>
NoParsing == [status |-> "none"]
NoChat == [hub |-> "none"]

Init ==
    /\ InitConn
    /\ input = NoInput
    /\ rd = NoReader
    /\ router = NoRouter
    /\ ws = NoWebSocket
    /\ form = NoForm
    /\ outgoing = NoOut
    /\ chat = NoChat
    /\ parsing = NoParsing

\* More socket writes than one call makes.
AllWrites == 8

\* The socket writes a call makes when none fails, given its state after
\* running with AllWrites to succeed.
NetWrites(st) == AllWrites - st.budget

\* The working state of one call, with budget socket writes still to
\* succeed, and its result stored back.
Work(budget) ==
    [c |-> c, bw |-> bw, wire |-> wire, broken |-> broken, budget |-> budget]

Store(st) ==
    /\ c' = st.c
    /\ bw' = st.bw
    /\ wire' = st.wire
    /\ broken' = st.broken

\* ------------------------------------------------------------------------
\* serveConnection: one iteration is Prepare, the handler's calls, Return
\* ------------------------------------------------------------------------

\* The per-cycle observations at the start of an iteration.
FreshCycle ==
    /\ bw' = NoWriter
    /\ wire' = <<>>
    /\ ops' = 0
    /\ last' = NoResult
    /\ bodyRead' = 0
    /\ bodyWritten' = 0
    /\ respondArg' = NoRespondArg
    /\ finished' = NotFinished

\* c := conn{...}; c.prepare() on a request drawn from the given sets that
\* parseRequestLine, parseHeader and web.NewRequest accept.
PrepareFrom(methods, versions, conns, clens, expects) ==
    /\ pc = "prepare"
    /\ cycles < MaxCycles
    /\ \E method \in methods, v \in versions, conn \in conns, clen \in clens,
          expect \in expects :
         LET nr == NewRequest(method, ProtocolVersion(v[1], v[2]),
                              RequestHeader(conn, clen, expect))
         IN  /\ nr.ok
             /\ req' = nr.req
             /\ c' = PreparedConn(nr.req)
    /\ pc' = "handler"
    /\ cycles' = cycles + 1
    /\ UNCHANGED <<form, outgoing, chat, parsing, input, rd, router, ws>>
    /\ UNCHANGED <<closes, broken, bw, wire, ops, last, bodyRead,
                   bodyWritten, respondArg, finished>>

Prepare ==
    PrepareFrom(Methods, Versions, ConnectionOpts, ContentLengthOpts, ExpectOpts)

\* c.prepare() fails: the request line or the header block does not parse
\* (or the client went away), or web.NewRequest rejects the request (here:
\* a Content-Length that is no number). The loop ends and the socket is
\* closed.
PrepareFail ==
    /\ pc = "prepare"
    /\ cycles < MaxCycles
    /\ \E parsed \in BOOLEAN, method \in Methods, v \in Versions,
          conn \in ConnectionOpts, clen \in ContentLengthOpts,
          expect \in ExpectOpts :
         \/ ~parsed
         \/ ~NewRequest(method, ProtocolVersion(v[1], v[2]),
                        RequestHeader(conn, clen, expect)).ok
    /\ pc' = "closed"
    /\ closes' = closes + 1
    /\ UNCHANGED <<form, outgoing, chat, parsing, input, rd, router, ws>>
    /\ UNCHANGED <<cycles, broken, c, req, bw, wire, ops, last, bodyRead,
                   bodyWritten, respondArg, finished>>

\* The statuses and header maps handlers pass to Respond.
Statuses == {StatusOK, StatusNotModified}

StrGzip ==
    <<"g", "z", "i", "p">>
\* A header name a caller wrote without canonical capitals.
LowerTransferEncoding ==
    <<"t", "r", "a", "n", "s", "f", "e", "r", "-",
      "e", "n", "c", "o", "d", "i", "n", "g">>

LowerContentLength ==
    <<"c", "o", "n", "t", "e", "n", "t", "-", "l", "e", "n", "g", "t", "h">>

RespondHeaders ==
    { EmptyMap,
      MapSet(EmptyMap, HeaderContentLength, <<"2">>),
      MapSet(EmptyMap, HeaderContentLength, <<"4", "0">>),
      MapSet(EmptyMap, HeaderTransferEncoding, StrGzip),
      MapSet(MapSet(EmptyMap, HeaderContentLength, <<"2">>),
             HeaderTransferEncoding, StrGzip),
      MapSet(EmptyMap, LowerTransferEncoding, StrGzip),
      MapSet(EmptyMap, LowerContentLength, <<"2">>) }

\* What a call of Respond that returned r leaves behind.
Responded(r, status, header) ==
    /\ Store(r.st)
    /\ last' = Result("Respond", r.ret, "nil", 0, "nil")
    /\ respondArg' =
         IF r.ret = "bw"
         THEN [called |-> TRUE, status |-> status, header |-> header]
         ELSE respondArg

\* The handler calls req.Respond / req.Responder.Respond with one of
\* statuses and one of headers.
RespondFrom(statuses, headers) ==
    /\ pc = "handler"
    /\ ops < MaxOps
    /\ \E status \in statuses, header \in headers :
       \E budget \in
            0..NetWrites(ResponderRespond(Work(AllWrites), req, status, header).st) :
         Responded(ResponderRespond(Work(budget), req, status, header),
                   status, FilterHeader(header, req.filters))
    /\ ops' = ops + 1
    /\ UNCHANGED <<form, outgoing, chat, parsing, input, rd, router, ws>>
    /\ UNCHANGED <<pc, cycles, closes, req, bodyRead, bodyWritten, finished>>

HandlerRespond ==
    RespondFrom(Statuses, RespondHeaders)

\* The handler calls req.Responder.Hijack.
HandlerHijack ==
    /\ pc = "handler"
    /\ ops < MaxOps
    /\ LET r == ConnHijack(c)
       IN  /\ pc' = IF r.panic THEN "panic" ELSE pc
           /\ c' = r.c
           /\ last' = Result("Hijack", "nil", r.conn, 0, r.err)
    /\ ops' = ops + 1
    /\ UNCHANGED <<form, outgoing, chat, parsing, input, rd, router, ws>>
    /\ UNCHANGED <<cycles, closes, broken, req, bw, wire, bodyRead,
                   bodyWritten, respondArg, finished>>

\* What a Read of the body that returned r leaves behind.
BodyRead(r) ==
    /\ Store(r.st)
    /\ last' = Result("Read", "nil", "nil", r.n, r.err)
    /\ bodyRead' = bodyRead + r.n

\* The handler reads from req.Body.
HandlerRead ==
    /\ pc = "handler"
    /\ ops < MaxOps
    /\ \E len \in 1..MaxReadLen, got \in 0..MaxReadLen :
       \E budget \in 0..NetWrites(ConnRead(Work(AllWrites), len, got).st) :
         BodyRead(ConnRead(Work(budget), len, got))
    /\ ops' = ops + 1
    /\ UNCHANGED <<form, outgoing, chat, parsing, input, rd, router, ws>>
    /\ UNCHANGED <<pc, cycles, closes, req, bodyWritten, respondArg, finished>>

\* What a Write to the body writer that returned r leaves behind.
BodyWritten(r) ==
    /\ Store(r.st)
    /\ last' = Result("Write", "nil", "nil", r.nn, r.err)
    /\ bodyWritten' = bodyWritten + r.nn

\* The handler writes to the body writer Respond returned.
HandlerWrite ==
    /\ pc = "handler"
    /\ ops < MaxOps
    /\ c.bw = "bw"
    /\ \E len \in 1..MaxWriteLen :
       \E budget \in
            0..NetWrites(BufWrite(Work(AllWrites), Seg("data", len), 0).st) :
         BodyWritten(BufWrite(Work(budget), Seg("data", len), 0))
    /\ ops' = ops + 1
    /\ UNCHANGED <<form, outgoing, chat, parsing, input, rd, router, ws>>
    /\ UNCHANGED <<pc, cycles, closes, req, bodyRead, respondArg, finished>>

\* What a Flush of the body writer that led to st leaves behind.
BodyFlushed(st) ==
    /\ Store(st)
    /\ last' = Result("Flush", "nil", "nil", 0, st.bw.err)

\* The handler flushes the body writer.
HandlerFlush ==
    /\ pc = "handler"
    /\ ops < MaxOps
    /\ c.bw = "bw"
    /\ \E budget \in 0..NetWrites(BufFlush(Work(AllWrites))) :
         BodyFlushed(BufFlush(Work(budget)))
    /\ ops' = ops + 1
    /\ UNCHANGED <<form, outgoing, chat, parsing, input, rd, router, ws>>
    /\ UNCHANGED <<pc, cycles, closes, req, bodyRead, bodyWritten,
                   respondArg, finished>>

\* Middleware wraps the request's responder: web.FilterRespond.
HandlerFilterRespond ==
    /\ pc = "handler"
    /\ ops < MaxOps
    /\ req.filters < MaxFilters
    /\ req' = [req EXCEPT !.filters = @ + 1]
    /\ last' = Result("FilterRespond", "nil", "nil", 0, "nil")
    /\ ops' = ops + 1
    /\ UNCHANGED <<form, outgoing, chat, parsing, input, rd, router, ws>>
    /\ UNCHANGED <<pc, cycles, closes, broken, c, bw, wire, bodyRead,
                   bodyWritten, respondArg, finished>>

\* serveConnection after finish led to st: the socket is closed when
\* close-after-response is set, and the loop goes on when it is not.
Finished(st) ==
    /\ Store(st)
    /\ finished' = [ran |-> TRUE, defaulted |-> ~c.respondCalled]
    /\ pc' = IF st.c.closeAfterResponse THEN "closed" ELSE "served"
    /\ closes' = IF st.c.closeAfterResponse THEN closes + 1 ELSE closes

\* handler.ServeWeb returns: a hijacked connection is left alone and
\* serveConnection returns; otherwise finish runs.
HandlerReturn ==
    /\ pc = "handler"
    /\ IF c.hijacked
       THEN /\ pc' = "hijacked"
            /\ UNCHANGED <<closes, broken, c, bw, wire, finished>>
       ELSE \E budget \in 0..NetWrites(ConnFinish(Work(AllWrites), req)) :
              Finished(ConnFinish(Work(budget), req))
    /\ UNCHANGED <<form, outgoing, chat, parsing, input, rd, router, ws>>
    /\ UNCHANGED <<cycles, req, ops, last, bodyRead, bodyWritten, respondArg>>

\* The loop goes round: a new conn on the same socket and reader.
NextRequest ==
    /\ pc = "served"
    /\ pc' = "prepare"
    /\ c' = NewConn
    /\ req' = NoRequest
    /\ FreshCycle
    /\ UNCHANGED <<form, outgoing, chat, parsing, input, rd, router, ws>>
    /\ UNCHANGED <<cycles, closes, broken>>

Next ==
    \/ Prepare
    \/ PrepareFail
    \/ HandlerRespond
    \/ HandlerHijack
    \/ HandlerRead
    \/ HandlerWrite
    \/ HandlerFlush
    \/ HandlerFilterRespond
    \/ HandlerReturn
    \/ NextRequest

Spec == Init /\ [][Next]_vars

\* ------------------------------------------------------------------------
\* prepare over a wider set of requests, with handlers that return at once
\* ------------------------------------------------------------------------

StrCloseMixed ==
    <<"C", "l", "o", "s", "e">>
StrUpgrade ==
    <<"u", "p", "g", "r", "a", "d", "e">>

WideMethods == {StrGET, StrHEAD, StrPOST}
WideVersions == {<<0, 9>>, <<1, 0>>, <<1, 1>>, <<1, 2>>, <<2, 0>>}
WideConnectionOpts ==
    {<<>>, <<StrClose>>, <<StrCloseMixed>>, <<StrKeepAlive>>,
     <<StrKeepAliveMixed>>, <<StrUpgrade>>}

PrepareWide ==
    PrepareFrom(WideMethods, WideVersions, WideConnectionOpts,
                ContentLengthOpts, ExpectOpts)

NextPrepare ==
    \/ PrepareWide
    \/ PrepareFail
    \/ HandlerReturn
    \/ NextRequest

SpecPrepare == Init /\ [][NextPrepare]_vars

\* ------------------------------------------------------------------------
\* parseRequestLine and parseHeader, on the lines the client sent
\* ------------------------------------------------------------------------

\* web.IsSpaceByte
IsSpaceByte(ch) ==
    ch \in {" ", "\t", "\r", "\n"}

\* The separators and control characters of RFC 2616 among the bytes used.
Separators ==
    {" ", "\t", "\"", "(", ")", ",", "/", ":", ";", "<", "=", ">", "?", "@",
     "[", "]", "\\", "{", "}"}
Controls ==
    {"\t", "\r", "\n"}

\* web.IsTokenByte
IsTokenByte(ch) ==
    ch \notin Controls /\ ch \notin Separators

\* skipBytes: the number of leading bytes of p that satisfy f.
skipBytes(p, f(_)) ==
    CHOOSE i \in 0..Len(p) :
        /\ \A j \in 1..i : f(p[j])
        /\ i = Len(p) \/ ~f(p[i + 1])

\* trimWSLeft
trimWSLeft(p) ==
    SubSeq(p, skipBytes(p, IsSpaceByte) + 1, Len(p))

\* trimWSRight: the longest prefix that does not end in a space byte.
trimWSRight(p) ==
    SubSeq(p, 1, CHOOSE i \in 0..Len(p) :
                    /\ \A j \in (i + 1)..Len(p) : IsSpaceByte(p[j])
                    /\ i = 0 \/ ~IsSpaceByte(p[i]))

\* The bytes [_A-Za-z0-9] of a method and [0-9] of a version number.
IsWordByte(ch) ==
    \/ ch = "_"
    \/ IndexOf(UpperLetters, ch) > 0
    \/ IndexOf(LowerLetters, ch) > 0
    \/ IndexOf(Digits, ch) > 0

IsDigitByte(ch) ==
    IndexOf(Digits, ch) > 0

\* The positions of byte ch in p.
Positions(p, ch) ==
    {i \in 1..Len(p) : p[i] = ch}

StrHTTPSlash ==
    <<"H", "T", "T", "P", "/">>

\* The version part of the request line: HTTP/ digits . digits
VersionMatch(v) ==
    LET dots == Positions(v, ".")
        dot == CHOOSE i \in dots : TRUE
    IN  IF /\ Len(v) > Len(StrHTTPSlash)
           /\ SubSeq(v, 1, Len(StrHTTPSlash)) = StrHTTPSlash
           /\ Cardinality(dots) = 1
           /\ dot > Len(StrHTTPSlash) + 1
           /\ dot < Len(v)
           /\ \A i \in (Len(StrHTTPSlash) + 1)..Len(v) : i = dot \/ IsDigitByte(v[i])
        THEN [ok |-> TRUE,
              major |-> SubSeq(v, Len(StrHTTPSlash) + 1, dot - 1),
              minor |-> SubSeq(v, dot + 1, Len(v))]
        ELSE [ok |-> FALSE, major |-> <<>>, minor |-> <<>>]

\* requestLineRegexp.FindSubmatch: a method of word bytes, one space, a url
\* without spaces, one space, the version; no byte before or after.
RequestLineMatch(p) ==
    LET sp == Positions(p, " ")
        i == CHOOSE i \in sp : \A j \in sp : i <= j
        j == CHOOSE j \in sp : \A k \in sp : k <= j
        v == VersionMatch(SubSeq(p, j + 1, Len(p)))
    IN  IF /\ Cardinality(sp) = 2
           /\ i > 1
           /\ j > i + 1
           /\ \A k \in 1..(i - 1) : IsWordByte(p[k])
           /\ v.ok
        THEN [ok |-> TRUE, method |-> SubSeq(p, 1, i - 1),
              url |-> SubSeq(p, i + 1, j - 1), major |-> v.major,
              minor |-> v.minor]
        ELSE [ok |-> FALSE, method |-> <<>>, url |-> <<>>, major |-> <<>>,
              minor |-> <<>>]

\* bufio.Reader.ReadSlice('\n') succeeds when a whole line is there to
\* read; the input ending before the line feed is an error.
HasLine(lines) ==
    lines # <<>> /\ Head(lines) # <<>> /\ Head(lines)[Len(Head(lines))] = "\n"

\* What parseRequestLine and parseHeader return: status is "ok", "err" (an
\* os.Error) or "panic" (a runtime error); rest is the input not yet read.
Parsed(status, method, url, version, header, rest) ==
    [status |-> status, method |-> method, url |-> url, version |-> version,
     header |-> header, rest |-> rest]

ParseError ==
    Parsed("err", <<>>, <<>>, 0, EmptyMap, <<>>)

ParsePanic ==
    Parsed("panic", <<>>, <<>>, 0, EmptyMap, <<>>)

\* parseRequestLine once the line matched as m.
RequestLineParsed(m, rest) ==
    IF ~m.ok \/ ~Atoi(m.major).ok \/ ~Atoi(m.minor).ok
    THEN ParseError
    ELSE Parsed("ok", m.method, m.url,
                ProtocolVersion(Atoi(m.major).val, Atoi(m.minor).val),
                EmptyMap, rest)

\* parseRequestLine
parseRequestLine(lines) ==
    IF ~HasLine(lines)
    THEN ParseError
    ELSE RequestLineParsed(RequestLineMatch(trimWSRight(Head(lines))),
                           Tail(lines))

\* The limits of parseHeader.
maxLineSize == 4096
maxValueSize == 4096
maxHeaderCount == 256

\* A line without its terminator, CR LF or LF.
StripTerminator(p) ==
    IF Len(p) >= 2 /\ p[Len(p) - 1] = "\r"
    THEN SubSeq(p, 1, Len(p) - 2)
    ELSE SubSeq(p, 1, Len(p) - 1)

RECURSIVE parseHeaderFrom(_, _, _, _)

\* A continuation line stored as a value of its own under lastKey.
ContinuationLineNewValue(q, rest, header, lastKey, headerCount) ==
    parseHeaderFrom(rest, MapAppend(header, lastKey, q), lastKey, headerCount)

\* A continuation line appended whatever the length of the value.
ContinuationLineUnbounded(q, rest, header, lastKey, headerCount) ==
    IF Len(q) = 0
    THEN parseHeaderFrom(rest, header, lastKey, headerCount)
    ELSE parseHeaderFrom(
           rest,
           [header EXCEPT ![lastKey][Len(header[lastKey])] = @ \o <<" ">> \o q],
           lastKey, headerCount)

\* parseHeader on a continuation line whose trimmed text is q: it is
\* appended, after one space, to the last value of lastKey.
ContinuationLine(q, rest, header, lastKey, headerCount) ==
    IF Len(q) = 0
    THEN parseHeaderFrom(rest, header, lastKey, headerCount)
    ELSE IF Len(header[lastKey][Len(header[lastKey])]) + 1 + Len(q) > maxValueSize
    THEN ParseError
    ELSE parseHeaderFrom(
           rest,
           [header EXCEPT ![lastKey][Len(header[lastKey])] = @ \o <<" ">> \o q],
           lastKey, headerCount)

\* parseHeader on a new header line after its key: q is what follows the
\* key, without leading space. q[0] is read whether or not q has a byte.
HeaderAfterKey(key, q, rest, header, headerCount) ==
    IF q = <<>>
    THEN ParsePanic
    ELSE IF q[1] # ":"
    THEN ParseError
    ELSE parseHeaderFrom(
           rest, MapAppend(header, key, trimWSRight(trimWSLeft(Tail(q)))),
           key, headerCount)

\* parseHeader on the line p, its terminator removed.
HeaderLine(p, rest, header, lastKey, headerCount) ==
    IF Len(p) = 0
    THEN Parsed("ok", <<>>, <<>>, 0, header, rest)
    ELSE IF Len(p) > maxLineSize
    THEN ParseError
    ELSE IF IsSpaceByte(p[1])
    THEN IF lastKey = <<>>
         THEN ParseError
         ELSE ContinuationLine(trimWSLeft(trimWSRight(p)), rest, header,
                               lastKey, headerCount)
    ELSE IF headerCount + 1 > maxHeaderCount
    THEN ParseError
    ELSE IF skipBytes(p, IsTokenByte) < 1
    THEN ParseError
    ELSE HeaderAfterKey(
           HeaderName(SubSeq(p, 1, skipBytes(p, IsTokenByte))),
           trimWSLeft(SubSeq(p, skipBytes(p, IsTokenByte) + 1, Len(p))),
           rest, header, headerCount + 1)

\* parseHeader from the lines left, with the header map, the last key and
\* the number of header lines so far. b.ReadSlice fails for a line that
\* does not end within the buffer of the bufio.Reader.
parseHeaderFrom(lines, header, lastKey, headerCount) ==
    IF ~HasLine(lines) \/ Len(Head(lines)) > BufSize
    THEN ParseError
    ELSE HeaderLine(StripTerminator(Head(lines)), Tail(lines), header,
                    lastKey, headerCount)

\* parseHeader
parseHeader(lines) ==
    parseHeaderFrom(lines, EmptyMap, <<>>, 0)

\* prepare, its two parsing steps: the header block is parsed when the
\* request line was.
ParsedHeader(r, h) ==
    IF h.status # "ok" THEN h
    ELSE Parsed("ok", r.method, r.url, r.version, h.header, h.rest)

ParsedRequestLine(r) ==
    IF r.status # "ok" THEN r ELSE ParsedHeader(r, parseHeader(r.rest))

ParseRequest(lines) ==
    ParsedRequestLine(parseRequestLine(lines))

\* Header lines are at most this many in the requests parsed below.
MaxHeaderLines == 2

StrCRLF ==
    <<"\r", "\n">>
StrLF ==
    <<"\n">>
HeaderCookie ==
    <<"C", "o", "o", "k", "i", "e">>

\* Request lines as a client may send them: well formed (one with a lower
\* case method, one ended by a bare LF), and malformed (two spaces, no
\* version, a byte no method has, a version that is no number, an empty
\* line, a line cut off by the end of the input).
RequestLines ==
    { StrGET \o <<" ", "/", " ">> \o ProtoHTTP11 \o StrCRLF,
      StrGET \o <<" ", "/", " ">> \o ProtoHTTP10 \o StrLF,
      ToLower(StrGET) \o <<" ", "/", " ">> \o ProtoHTTP11 \o StrCRLF,
      StrGET \o <<" ", " ", "/", " ">> \o ProtoHTTP11 \o StrCRLF,
      StrGET \o <<" ", "/">> \o StrCRLF,
      <<"G", "-", "T", " ", "/", " ">> \o ProtoHTTP11 \o StrCRLF,
      StrGET \o <<" ", "/", " ">> \o StrHTTPSlash \o <<"1", ".", "x">> \o StrCRLF,
      StrCRLF,
      StrGET \o <<" ", "/", " ">> \o ProtoHTTP11 }

\* Header lines as a client may send them: a length, a length that is no
\* number, one header name in two spellings, a continuation line, a
\* continuation line of white space only, a line that is only a key, a
\* line without colon, a line without key.
HeaderLines ==
    { HeaderContentLength \o <<":", " ", "2">> \o StrCRLF,
      HeaderContentLength \o <<":", " ", "x">> \o StrCRLF,
      <<"C", "o", "O", "k", "i", "e", ":", " ", "x">> \o StrCRLF,
      HeaderCookie \o <<":", "y">> \o StrLF,
      <<" ", "z", " ">> \o StrCRLF,
      <<" ", "\t">> \o StrCRLF,
      HeaderCookie \o StrCRLF,
      HeaderCookie \o <<" ", "y">> \o StrCRLF,
      <<":", " ", "y">> \o StrCRLF }

\* The header blocks: up to MaxHeaderLines lines.
HeaderBlocks ==
    UNION {[1..n -> HeaderLines] : n \in 0..MaxHeaderLines}

\* What the client sends for one request: a request line, header lines and
\* the empty line, or the input ends before the empty line.
Inputs ==
    {<<rl>> \o hs \o end :
        rl \in RequestLines, hs \in HeaderBlocks, end \in {<<StrCRLF>>, <<>>}}

\* prepare after parsing gave r and web.NewRequest gave nr: a runtime error
\* ends the program; an error ends the loop, and the socket is closed;
\* otherwise the handler is called.
PreparedInput(r, nr) ==
    IF r.status = "panic"
    THEN /\ pc' = "panic"
         /\ UNCHANGED <<cycles, closes, c, req>>
    ELSE IF r.status = "err" \/ ~nr.ok
    THEN /\ pc' = "closed"
         /\ closes' = closes + 1
         /\ UNCHANGED <<cycles, c, req>>
    ELSE /\ pc' = "handler"
         /\ cycles' = cycles + 1
         /\ req' = nr.req
         /\ c' = PreparedConn(nr.req)
         /\ UNCHANGED closes

\* c := conn{...}; c.prepare() on the lines of input.
PrepareInput ==
    /\ pc = "prepare"
    /\ cycles < MaxCycles
    /\ input # NoInput
    /\ PreparedInput(ParseRequest(input),
                     NewRequest(ParseRequest(input).method,
                                ParseRequest(input).version,
                                ParseRequest(input).header))
    /\ UNCHANGED <<broken, bw, wire, ops, last, bodyRead, bodyWritten,
                   respondArg, finished, form, outgoing, chat, parsing, input, rd, router, ws>>

InitParse ==
    /\ InitConn
    /\ input \in Inputs
    /\ rd = NoReader
    /\ router = NoRouter
    /\ ws = NoWebSocket
    /\ form = NoForm
    /\ outgoing = NoOut
    /\ chat = NoChat
    /\ parsing = NoParsing

NextParse ==
    \/ PrepareInput
    \/ HandlerReturn

SpecParse == InitParse /\ [][NextParse]_vars

\* ------------------------------------------------------------------------
\* Hijack and the bytes behind the header block
\* ------------------------------------------------------------------------

\* The longest run of bytes the client sends after the header block.
MaxStream == 3

\* The bytes the client sends after the header block, told apart by their
\* position.
Stream(n) ==
    [i \in 1..n |-> i]

\* br := bufio.NewReader(netConn) in front of a client that will send the
\* n bytes after its header block. sock counts the bytes read from the
\* socket, buf is what the bufio.Reader holds, body what req.Body gave the
\* handler; hbuf is the buffer Hijack returned, taken the bytes the new
\* owner read from the socket and owner the bytes its reader gave it.
NewReader(n) ==
    [stream |-> Stream(n), sock |-> 0, buf |-> <<>>, body |-> <<>>,
     hijacked |-> FALSE, hbuf |-> <<>>, taken |-> <<>>, owner |-> <<>>]

\* The reader once prepare has parsed the header block: the read that
\* brought the end of the block brought k bytes more.
ReaderAfterHeader(r, k) ==
    [r EXCEPT !.sock = k, !.buf = SubSeq(r.stream, 1, k)]

\* bufio.Reader.Read on an empty buffer: one read of the socket, f bytes.
ReaderFill(r, f) ==
    IF r.buf = <<>>
    THEN [r EXCEPT !.buf = SubSeq(r.stream, r.sock + 1, r.sock + f),
                   !.sock = r.sock + f]
    ELSE r

\* bufio.Reader.Read: n bytes are copied out of the buffer.
ReaderRead(r, n) ==
    [r EXCEPT !.buf = SubSeq(r.buf, n + 1, Len(r.buf)),
              !.body = r.body \o SubSeq(r.buf, 1, n)]

\* The most c.br.Read can return: what is buffered, else what a read of
\* the socket brings.
ReaderGot(r, f) ==
    IF r.buf # <<>> THEN Len(r.buf) ELSE f

\* A Hijack that returns no buffered bytes.
HijackBufferedNone(r) ==
    <<>>

\* c.br.Peek(c.br.Buffered()): all the bytes the reader holds.
HijackBuffered(r) ==
    r.buf

\* The reader after the call of Hijack that returned res.
ReaderHijacked(r, res) ==
    IF res.err = "nil" /\ ~res.panic
    THEN [r EXCEPT !.hijacked = TRUE, !.hbuf = HijackBuffered(r), !.buf = <<>>]
    ELSE r

\* bytes.Buffer.Read of the returned buffer: n bytes more.
OwnerReadBuffered(r, n) ==
    [r EXCEPT !.owner = r.owner \o SubSeq(r.hbuf, Len(r.owner) + 1,
                                          Len(r.owner) + n)]

\* A read of the returned socket that brings f bytes.
OwnerReadSocket(r, f) ==
    [r EXCEPT !.taken = r.taken \o SubSeq(r.stream, r.sock + 1, r.sock + f),
              !.owner = r.owner \o SubSeq(r.stream, r.sock + 1, r.sock + f),
              !.sock = r.sock + f]

\* The smaller of two counts.
Min2(x, y) ==
    IF x <= y THEN x ELSE y

\* io.MultiReader(bytes.NewBuffer(buffered), conn).Read(p), len(p) = len:
\* the buffer first, and the socket once the buffer is used up.
OwnerReaderRead(r, len, f) ==
    IF Len(r.owner) < Len(r.hbuf)
    THEN OwnerReadBuffered(r, Min2(len, Len(r.hbuf) - Len(r.owner)))
    ELSE OwnerReadSocket(r, Min2(f, Min2(len, Len(r.stream) - r.sock)))

\* prepare returned the request nr on the stream.
StreamPrepared(nr) ==
    /\ nr.ok
    /\ req' = nr.req
    /\ c' = PreparedConn(nr.req)

\* c.prepare() on a request line and header block that parse; the reader
\* may hold bytes that came with the block.
StreamPrepare ==
    /\ pc = "prepare"
    /\ cycles < MaxCycles
    /\ \E clen \in {<<>>, << <<"2">> >>}, expect \in ExpectOpts :
         StreamPrepared(NewRequest(StrGET, ProtocolVersion(1, 1),
                                   RequestHeader(<<>>, clen, expect)))
    /\ \E k \in 0..Len(rd.stream) : rd' = ReaderAfterHeader(rd, k)
    /\ pc' = "handler"
    /\ cycles' = cycles + 1
    /\ UNCHANGED <<closes, broken, bw, wire, ops, last, bodyRead,
                   bodyWritten, respondArg, finished, form, outgoing, chat, parsing, input, router, ws>>

\* What a Read of the body that returned r leaves behind on the stream;
\* called tells whether it got as far as c.br.Read.
StreamBodyRead(r, called, f) ==
    /\ BodyRead(r)
    /\ rd' = IF called THEN ReaderRead(ReaderFill(rd, f), r.n) ELSE rd

\* The handler reads from req.Body; a read of the socket brings f bytes
\* (none: the client went away).
StreamRead ==
    /\ pc = "handler"
    /\ ops < MaxOps
    /\ \E len \in 1..MaxReadLen, f \in 0..(Len(rd.stream) - rd.sock) :
         StreamBodyRead(ConnRead(Work(AllWrites), len, ReaderGot(rd, f)),
                        c.requestErr = "nil" /\ c.requestAvail > 0, f)
    /\ ops' = ops + 1
    /\ UNCHANGED <<pc, cycles, closes, req, bodyWritten, respondArg, finished,
                   form, outgoing, chat, parsing, input, router, ws>>

\* What the call of Hijack that returned r leaves behind.
StreamHijacked(r) ==
    /\ pc' = IF r.panic THEN "panic" ELSE pc
    /\ c' = r.c
    /\ last' = Result("Hijack", "nil", r.conn, 0, r.err)
    /\ rd' = ReaderHijacked(rd, r)

\* The handler calls req.Responder.Hijack.
StreamHijack ==
    /\ pc = "handler"
    /\ ops < MaxOps
    /\ StreamHijacked(ConnHijack(c))
    /\ ops' = ops + 1
    /\ UNCHANGED <<cycles, closes, broken, req, bw, wire, bodyRead,
                   bodyWritten, respondArg, finished, form, outgoing, chat, parsing, input, router, ws>>

\* The new owner reads from the reader NewWebSocketConn builds of the
\* returned buffer and socket.
OwnerRead ==
    /\ rd.hijacked
    /\ Len(rd.owner) < Len(rd.hbuf) + Len(rd.stream) - rd.sock
    /\ \E len \in 1..MaxReadLen, f \in 1..MaxReadLen :
         rd' = OwnerReaderRead(rd, len, f)
    /\ UNCHANGED <<connVars, form, outgoing, chat, parsing, input, router, ws>>

InitHijack ==
    /\ InitConn
    /\ input = NoInput
    /\ rd \in {NewReader(n) : n \in 0..MaxStream}
    /\ router = NoRouter
    /\ ws = NoWebSocket
    /\ form = NoForm
    /\ outgoing = NoOut
    /\ chat = NoChat
    /\ parsing = NoParsing

NextHijack ==
    \/ StreamPrepare
    \/ StreamRead
    \/ StreamHijack
    \/ OwnerRead

SpecHijack == InitHijack /\ [][NextHijack]_vars

\* ------------------------------------------------------------------------
\* Router
\* ------------------------------------------------------------------------

\* The most routes registered.
MaxRoutes == 2

StatusMovedPermanently == 301
StatusFound == 302

\* A byte of a parameter name: [A-Za-z0-9].
IsNameByte(ch) ==
    \/ IndexOf(UpperLetters, ch) > 0
    \/ IndexOf(LowerLetters, ch) > 0
    \/ IndexOf(Digits, ch) > 0

RECURSIVE NameEnd(_, _)
\* The position behind the run of name bytes of p that starts at i.
NameEnd(p, i) ==
    IF i <= Len(p) /\ IsNameByte(p[i]) THEN NameEnd(p, i + 1) ELSE i

\* parameterRegexp matches at position i of p: '<' name '>'. (The patterns
\* registered here carry no ':' regexp part.)
ParamAt(p, i) ==
    /\ p[i] = "<"
    /\ NameEnd(p, i + 1) > i + 1
    /\ NameEnd(p, i + 1) <= Len(p)
    /\ p[NameEnd(p, i + 1)] = ">"

\* parameterRegexp.FindStringSubmatchIndex(pattern): the leftmost match, as
\* the positions of '<' and '>'; from = 0 when there is none.
FindParam(p) ==
    IF \E i \in 1..Len(p) : ParamAt(p, i)
    THEN LET i == CHOOSE i \in 1..Len(p) :
                    ParamAt(p, i) /\ \A j \in 1..(i - 1) : ~ParamAt(p, j)
         IN  [from |-> i, to |-> NameEnd(p, i + 1)]
    ELSE [from |-> 0, to |-> 0]

\* regexp.QuoteMeta(s) as matcher elements: each byte stands for itself.
Literals(s) ==
    [i \in 1..Len(s) |-> [t |-> "lit", ch |-> s[i], opt |-> FALSE, excl |-> {}]]

\* The group of a parameter without a regexp: one or more bytes other than
\* '/' and the byte that follows the closing '>'.
Group(rest) ==
    [t |-> "group", ch |-> "", opt |-> FALSE,
     excl |-> IF rest # <<>> THEN {Head(rest), "/"} ELSE {"/"}]

RECURSIVE compileFrom(_, _, _)
\* compilePattern, the loop: the literal text before the next parameter,
\* the parameter's group and name, and on with the text behind it.
compileParam(pattern, a, elems, names) ==
    compileFrom(SubSeq(pattern, a.to + 1, Len(pattern)),
                elems \o Literals(SubSeq(pattern, 1, a.from - 1))
                      \o <<Group(SubSeq(pattern, a.to + 1, Len(pattern)))>>,
                Append(names, SubSeq(pattern, a.from + 1, a.to - 1)))

compileFrom(pattern, elems, names) ==
    IF FindParam(pattern).from = 0
    THEN [elems |-> elems \o Literals(pattern), names |-> names]
    ELSE compileParam(pattern, FindParam(pattern), elems, names)

\* The '?' compilePattern appends for addSlash makes the last element of
\* the expression optional.
OptionalLast(elems) ==
    IF elems = <<>> THEN elems
    ELSE [elems EXCEPT ![Len(elems)].opt = TRUE]

\* compilePattern: the matcher ^...$ as its elements, and the names.
compilePattern(pattern, addSlash) ==
    [elems |-> IF addSlash
               THEN OptionalLast(compileFrom(pattern, <<>>, <<>>).elems)
               ELSE compileFrom(pattern, <<>>, <<>>).elems,
     names |-> compileFrom(pattern, <<>>, <<>>).names]

\* No match of a regexp.
NoMatch == [ok |-> FALSE, values |-> <<>>]

RECURSIVE RunLen(_, _)
\* The length of the longest prefix of s without a byte of excl.
RunLen(s, excl) ==
    IF s = <<>> \/ Head(s) \in excl THEN 0 ELSE 1 + RunLen(Tail(s), excl)

RECURSIVE MatchFrom(_, _, _)
RECURSIVE GroupTry(_, _, _, _)
\* A group takes n bytes if the rest then matches, else fewer, at least one.
GroupTry(elems, s, values, n) ==
    IF n = 0 THEN NoMatch
    ELSE IF MatchFrom(Tail(elems), SubSeq(s, n + 1, Len(s)),
                      Append(values, SubSeq(s, 1, n))).ok
    THEN MatchFrom(Tail(elems), SubSeq(s, n + 1, Len(s)),
                   Append(values, SubSeq(s, 1, n)))
    ELSE GroupTry(elems, s, values, n - 1)

\* The match of the elements against all of s; values are the groups.
MatchFrom(elems, s, values) ==
    IF elems = <<>>
    THEN IF s = <<>> THEN [ok |-> TRUE, values |-> values] ELSE NoMatch
    ELSE IF Head(elems).t = "group"
    THEN GroupTry(elems, s, values, RunLen(s, Head(elems).excl))
    ELSE IF s # <<>> /\ Head(s) = Head(elems).ch
            /\ MatchFrom(Tail(elems), Tail(s), values).ok
    THEN MatchFrom(Tail(elems), Tail(s), values)
    ELSE IF Head(elems).opt
    THEN MatchFrom(Tail(elems), s, values)
    ELSE NoMatch

\* r.regexp.FindStringSubmatch(path), without the whole match values[0].
FindStringSubmatch(regexp, path) ==
    MatchFrom(regexp, path, <<>>)

\* The hexadecimal digits and their values.
HexDigits ==
    <<"0", "1", "2", "3", "4", "5", "6", "7", "8", "9",
      "a", "b", "c", "d", "e", "f", "A", "B", "C", "D", "E", "F">>
IsHex(ch) ==
    IndexOf(HexDigits, ch) > 0
Unhex(ch) ==
    IF IndexOf(HexDigits, ch) <= 16 THEN IndexOf(HexDigits, ch) - 1
    ELSE IndexOf(HexDigits, ch) - 7

\* The printable bytes 0x20 to 0x7E (the grave accent written as 0x60).
Ascii ==
    <<" ", "!", "\"", "#", "$", "%", "&", "'", "(", ")", "*", "+", ",", "-",
      ".", "/">> \o Digits \o <<":", ";", "<", "=", ">", "?", "@">>
    \o UpperLetters \o <<"[", "\\", "]", "^", "_", "0x60">> \o LowerLetters
    \o <<"{", "|", "}", "~">>

\* The byte with value n (the paths drawn here escape printable bytes).
ByteOf(n) ==
    Ascii[n - 31]

RECURSIVE URLUnescapeFrom(_, _)
\* http.URLUnescape: %XY becomes the byte 0xXY and '+' a space; a '%' that
\* two hexadecimal digits do not follow is an error.
URLUnescapeFrom(s, out) ==
    IF s = <<>> THEN [ok |-> TRUE, value |-> out]
    ELSE IF Head(s) = "%"
    THEN IF Len(s) < 3 \/ ~IsHex(s[2]) \/ ~IsHex(s[3])
         THEN [ok |-> FALSE, value |-> <<>>]
         ELSE URLUnescapeFrom(SubSeq(s, 4, Len(s)),
                              Append(out, ByteOf(16 * Unhex(s[2]) + Unhex(s[3]))))
    ELSE URLUnescapeFrom(Tail(s), Append(out, IF Head(s) = "+" THEN " " ELSE Head(s)))

URLUnescape(s) ==
    URLUnescapeFrom(s, <<>>)

\* The handlers find can return besides the registered ones.
RouterError(status) ==
    [kind |-> "routerError", status |-> status]
HandlerAddSlash ==
    [kind |-> "addSlash", status |-> 0]

\* What find returns; panic: a runtime error instead.
Found(handler, names, values) ==
    [panic |-> FALSE, handler |-> handler, names |-> names, values |-> values]
FindPanic ==
    [panic |-> TRUE, handler |-> RouterError(0), names |-> <<>>, values |-> <<>>]

\* A find that prefers the handler of "*" to the one of GET for HEAD.
FindHandlerWildcardFirst(r, values, method) ==
    IF method \in DOMAIN r.handlers
    THEN Found(r.handlers[method], r.names, values)
    ELSE IF <<"*">> \in DOMAIN r.handlers
    THEN Found(r.handlers[<<"*">>], r.names, values)
    ELSE IF method = StrHEAD /\ StrGET \in DOMAIN r.handlers
    THEN Found(r.handlers[StrGET], r.names, values)
    ELSE Found(RouterError(405), <<>>, <<>>)

\* find, the handler of route r for the method: the method's, for HEAD the
\* one of GET, the one of "*", else the error 405.
FindHandler(r, values, method) ==
    IF method \in DOMAIN r.handlers
    THEN Found(r.handlers[method], r.names, values)
    ELSE IF method = StrHEAD /\ StrGET \in DOMAIN r.handlers
    THEN Found(r.handlers[StrGET], r.names, values)
    ELSE IF <<"*">> \in DOMAIN r.handlers
    THEN Found(r.handlers[<<"*">>], r.names, values)
    ELSE Found(RouterError(405), <<>>, <<>>)

\* A find that hands a value that does not unescape to the handler as it is.
FindUnescapedLenient(r, values, method) ==
    FindHandler(r, [j \in 1..Len(values) |->
                      IF URLUnescape(values[j]).ok
                      THEN URLUnescape(values[j]).value ELSE values[j]],
                method)

\* find, the loop that unescapes the values of the groups: the first
\* failure ends it with the error 400.
FindUnescaped(r, values, method) ==
    IF \E j \in 1..Len(values) : ~URLUnescape(values[j]).ok
    THEN Found(RouterError(400), <<>>, <<>>)
    ELSE FindHandler(r, [j \in 1..Len(values) |-> URLUnescape(values[j]).value],
                     method)

RECURSIVE find(_, _, _)
\* A find that goes on to the next route when the route that matches has no
\* handler for the method.
FindRouteScanOn(r, m, rest, path, method) ==
    IF ~m.ok
    THEN find(rest, path, method)
    ELSE IF r.addSlash /\ path = <<>>
    THEN FindPanic
    ELSE IF r.addSlash /\ path[Len(path)] # "/"
    THEN Found(HandlerAddSlash, <<>>, <<>>)
    ELSE IF FindUnescaped(r, m.values, method).handler = RouterError(405)
    THEN find(rest, path, method)
    ELSE FindUnescaped(r, m.values, method)

\* find at route r with the match m of its regexp: path[len(path)-1] is
\* read only for a route with addSlash, and is out of range for an empty
\* path.
FindRoute(r, m, rest, path, method) ==
    IF ~m.ok
    THEN find(rest, path, method)
    ELSE IF r.addSlash /\ path = <<>>
    THEN FindPanic
    ELSE IF r.addSlash /\ path[Len(path)] # "/"
    THEN Found(HandlerAddSlash, <<>>, <<>>)
    ELSE FindUnescaped(r, m.values, method)

\* Router.find over the routes in the order of registration.
find(routes, path, method) ==
    IF routes = <<>>
    THEN Found(RouterError(404), <<>>, <<>>)
    ELSE FindRoute(Head(routes), FindStringSubmatch(Head(routes).regexp, path),
                   Tail(routes), path, method)

\* An argument of the variadic handlers ...interface{}: a value and its
\* dynamic type.
Arg(type, value) ==
    [type |-> type, value |-> value]

\* Register, the loop over the (method, handler) pairs: r.handlers[method]
\* = handler, a later pair for a method replacing an earlier one.
RegisterHandlers(handlers) ==
    [m \in {handlers[2 * i - 1].value : i \in 1..(Len(handlers) \div 2)} |->
        handlers[2 * (CHOOSE i \in 1..(Len(handlers) \div 2) :
                        /\ handlers[2 * i - 1].value = m
                        /\ \A j \in (i + 1)..(Len(handlers) \div 2) :
                             handlers[2 * j - 1].value # m)].value]

\* Register, the type tests of the loop: handlers[i].(string) and the type
\* switch over Handler and func(*Request).
RegisterBadPair(handlers) ==
    \E i \in 1..(Len(handlers) \div 2) :
       \/ handlers[2 * i - 1].type # "string"
       \/ handlers[2 * i].type \notin {"Handler", "func(*Request)"}

\* A Register that pushes the route before it looks at the handlers.
RegisterPushFirst(routes, pattern, handlers) ==
    IF pattern = <<>> \/ pattern[1] # "/"
    THEN [panic |-> TRUE, routes |-> routes]
    ELSE [panic |-> \/ Len(handlers) % 2 # 0 \/ Len(handlers) = 0
                    \/ RegisterBadPair(handlers),
          routes |-> Append(routes,
              [pattern |-> pattern,
               addSlash |-> pattern[Len(pattern)] = "/",
               regexp |-> compilePattern(pattern, pattern[Len(pattern)] = "/").elems,
               names |-> compilePattern(pattern, pattern[Len(pattern)] = "/").names,
               handlers |-> EmptyMap])]

\* Router.Register: the route of the pattern is pushed onto routes; a bad
\* pattern or handler list is a panic, before the push.
Register(routes, pattern, handlers) ==
    IF pattern = <<>> \/ pattern[1] # "/"
    THEN [panic |-> TRUE, routes |-> routes]
    ELSE IF Len(handlers) % 2 # 0 \/ Len(handlers) = 0
    THEN [panic |-> TRUE, routes |-> routes]
    ELSE IF RegisterBadPair(handlers)
    THEN [panic |-> TRUE, routes |-> routes]
    ELSE [panic |-> FALSE,
          routes |-> Append(routes,
              [pattern |-> pattern,
               addSlash |-> pattern[Len(pattern)] = "/",
               regexp |-> compilePattern(pattern, pattern[Len(pattern)] = "/").elems,
               names |-> compilePattern(pattern, pattern[Len(pattern)] = "/").names,
               handlers |-> RegisterHandlers(handlers)])]

RECURSIVE SetParams(_, _, _)
\* Router.ServeWeb, the loop req.Param.Set(names[i], values[i]).
SetParams(param, names, values) ==
    IF names = <<>> THEN param
    ELSE SetParams(MapSet(param, Head(names), Head(values)),
                   Tail(names), Tail(values))

\* What became of a request: the handler that ran with the request's
\* parameters, or the response of the router itself.
Served(kind, handler, status, location, param) ==
    [kind |-> kind, handler |-> handler, status |-> status,
     location |-> location, param |-> param]
NotServed ==
    Served("none", RouterError(0), 0, <<>>, EmptyMap)

\* addSlash: the path with a slash, and the query behind '?'.
AddSlashURL(path, rawQuery) ==
    IF Len(rawQuery) > 0
    THEN path \o <<"/">> \o <<"?">> \o rawQuery
    ELSE path \o <<"/">>

\* Request.Redirect of addSlash: http.ParseURL gives no URL for a path with
\* a bad escape, and u.Scheme is then read of nil; else the status 301 with
\* the Location.
Redirect(path, url, perm, param) ==
    IF ~URLUnescape(path \o <<"/">>).ok
    THEN Served("panic", HandlerAddSlash, 0, <<>>, param)
    ELSE Served("redirect", HandlerAddSlash,
                IF perm THEN StatusMovedPermanently ELSE StatusFound, url, param)

\* handler.ServeWeb(req) for the handler f found.
HandlerServeWeb(f, path, rawQuery, param) ==
    IF f.panic
    THEN Served("panic", f.handler, 0, <<>>, param)
    ELSE IF f.handler.kind = "routerError"
    THEN Served("error", f.handler, f.handler.status, <<>>,
                SetParams(param, f.names, f.values))
    ELSE IF f.handler.kind = "addSlash"
    THEN Redirect(path, AddSlashURL(path, rawQuery), TRUE,
                  SetParams(param, f.names, f.values))
    ELSE Served("handler", f.handler, 0, <<>>,
                SetParams(param, f.names, f.values))

\* Router.ServeWeb
RouterServeWeb(routes, path, method, rawQuery, param) ==
    HandlerServeWeb(find(routes, path, method), path, rawQuery, param)

\* The patterns, handler lists and requests of the router model.
StrParamA == <<"a">>
StrParamB == <<"b">>
Patterns ==
    { <<"/">>,
      <<"/", "x">>,
      <<"/", "<", "a", ">", "/">>,
      <<"/", "<", "a", ">", "/", "<", "b", ">">>,
      <<"/", "%", "2", "/">> }
HandlerMethods ==
    { <<StrGET, <<"*">> >>, <<StrPOST>>, <<StrHEAD, StrGET>> }
RequestMethods ==
    {StrGET, StrHEAD, StrPOST}
PathSegments ==
    { <<"x">>, <<"%", "2", "4">>, <<"+">>, <<"%", "2">> }
Paths ==
    {<<>>, <<"/">>}
    \cup {<<"/">> \o sg : sg \in {<<"x">>, <<"%", "2">>}}
    \cup {<<"/">> \o sg \o <<"/">> : sg \in PathSegments}
    \cup {<<"/">> \o sg \o <<"/">> \o t :
            sg \in {<<"x">>, <<"%", "2", "4">>}, t \in {<<"x">>, <<"%", "2">>}}
\* A raw query and the parameters NewRequest has parsed out of it.
Queries ==
    { [raw |-> <<>>, param |-> EmptyMap],
      [raw |-> <<"a", "=", "1">>, param |-> MapSet(EmptyMap, StrParamA, <<"1">>)] }

\* The handler list of the methods ms for the route registered as number n:
\* each handler is told apart by its route and method.
HandlerList(ms, n) ==
    [i \in 1..(2 * Len(ms)) |->
        IF i % 2 = 1 THEN Arg("string", ms[(i + 1) \div 2])
        ELSE Arg("Handler",
                 [kind |-> "handler", route |-> n, method |-> ms[i \div 2]])]

\* An argument in a handler's place that is neither a Handler nor a
\* func(*Request): the number 7.
NoHandler(n) ==
    Arg("int", [kind |-> "int", route |-> n, method |-> <<"7">>])

\* The calls of Register: the patterns with the handler lists, and calls
\* with a bad pattern or a bad handler list (none, a method without a
\* handler, a method that is no string, a handler that is none, the last
\* one behind a good pair).
Registrations(n) ==
    {[pattern |-> pattern, handlers |-> HandlerList(ms, n)] :
        pattern \in Patterns, ms \in HandlerMethods}
    \cup {[pattern |-> pattern, handlers |-> HandlerList(<<StrGET>>, n)] :
            pattern \in {<<>>, <<"x">>}}
    \cup {[pattern |-> <<"/", "x">>, handlers |-> hs] :
            hs \in {<<>>,
                    <<Arg("string", StrGET)>>,
                    <<Arg("int", <<"7">>)>> \o Tail(HandlerList(<<StrGET>>, n)),
                    <<Arg("string", StrGET), NoHandler(n)>>,
                    HandlerList(<<StrGET>>, n)
                      \o <<Arg("string", StrPOST), NoHandler(n)>>}}

\* No call of Register yet.
NotRegistered ==
    [pattern |-> <<>>, handlers |-> <<>>, panic |-> FALSE]

\* NewRouter(); registered is the last call of Register and whether it
\* panicked.
NewRouter ==
    [routes |-> <<>>, path |-> <<>>, method |-> <<>>, query |-> <<>>,
     param |-> EmptyMap, served |-> NotServed, registered |-> NotRegistered]

\* What the call of Register with g that led to r leaves behind.
Registered(g, r) ==
    router' = [router EXCEPT !.routes = r.routes,
                             !.registered = [pattern |-> g.pattern,
                                             handlers |-> g.handlers,
                                             panic |-> r.panic]]

\* The application registers a route; a panic of Register ends the
\* program.
RouterRegister ==
    /\ Len(router.routes) < MaxRoutes
    /\ router.served = NotServed
    /\ ~router.registered.panic
    /\ \E g \in Registrations(Len(router.routes) + 1) :
         Registered(g, Register(router.routes, g.pattern, g.handlers))
    /\ UNCHANGED <<connVars, form, outgoing, chat, parsing, input, rd, ws>>

\* A request is dispatched through the router; serving changes nothing in
\* the router, so one request is followed for each route table.
RouterDispatch ==
    /\ router.served = NotServed
    /\ ~router.registered.panic
    /\ \E path \in Paths, method \in RequestMethods, q \in Queries :
         router' = [router EXCEPT
                      !.path = path, !.method = method, !.query = q.raw,
                      !.param = q.param,
                      !.served = RouterServeWeb(router.routes, path, method,
                                                q.raw, q.param)]
    /\ UNCHANGED <<connVars, form, outgoing, chat, parsing, input, rd, ws>>

InitRouter ==
    /\ InitConn
    /\ input = NoInput
    /\ rd = NoReader
    /\ router = NewRouter
    /\ ws = NoWebSocket
    /\ form = NoForm
    /\ outgoing = NoOut
    /\ chat = NoChat
    /\ parsing = NoParsing

NextRouter ==
    \/ RouterRegister
    \/ RouterDispatch

SpecRouter == InitRouter /\ [][NextRouter]_vars

\* ------------------------------------------------------------------------
\* Properties
\* ------------------------------------------------------------------------

\* The response heads among segs.
Heads(segs) ==
    {i \in DOMAIN segs : segs[i].t = "head"}

\* The response heads of this cycle, on the socket or still buffered.
HeadsWritten ==
    Cardinality(Heads(wire)) + Cardinality(Heads(bw.buf))

\* This step is the handler's call op.
CallStep(op) ==
    /\ pc = "handler"
    /\ ops' = ops + 1
    /\ last'.op = op

\* C1: Respond is one-shot per cycle. At most one response head is written
\* in a cycle, and a call of Respond after Respond or after a successful
\* Hijack returns nil, writes nothing (to the socket or the buffer) and
\* leaves chunked, closeAfterResponse and responseAvail as they were.
C1_RespondOneShot ==
    /\ [](HeadsWritten <= 1)
    /\ [][(CallStep("Respond") /\ (c.respondCalled \/ c.hijacked)) =>
            /\ last'.ret = "nil"
            /\ wire' = wire
            /\ bw' = bw
            /\ c'.chunked = c.chunked
            /\ c'.closeAfterResponse = c.closeAfterResponse
            /\ c'.responseAvail = c.responseAvail]_vars

\* A second Respond was refused after the first wrote its head.
C1_Witness ==
    /\ last.op = "Respond"
    /\ last.ret = "nil"
    /\ c.respondCalled
    /\ respondArg.called
    /\ Cardinality(Heads(wire)) = 1

\* C2: Hijack after Respond fails with ErrInvalidState, returns no socket,
\* leaves the conn as it was (not hijacked, socket still owned), and the
\* cycle still ends with finish.
C2_HijackAfterRespond ==
    /\ [][(CallStep("Hijack") /\ c.respondCalled) =>
            /\ last'.err = "ErrInvalidState"
            /\ last'.conn = "nil"
            /\ c' = c
            /\ ~c'.hijacked
            /\ c'.netConn = "sock"
            /\ pc' = "handler"
            /\ UNCHANGED <<wire, bw, closes>>]_vars
    /\ [][(pc = "handler" /\ c.respondCalled /\ pc' # "handler") =>
            /\ finished'.ran
            /\ pc' \in {"closed", "served"}]_vars

\* The handler returned after a Hijack that Respond had made fail, and
\* finish ran.
C2_Witness ==
    /\ last.op = "Hijack"
    /\ last.err = "ErrInvalidState"
    /\ last.conn = "nil"
    /\ respondArg.called
    /\ finished.ran
    /\ pc \in {"closed", "served"}

\* C3: after a successful Hijack the server writes nothing to the socket
\* (no head, no body, no terminal chunk), does not run finish, does not
\* close the socket and prepares no further request on it.
C3_HijackedUntouched ==
    [][c.hijacked =>
         /\ wire' = wire
         /\ bw' = bw
         /\ finished' = finished
         /\ ~finished'.ran
         /\ closes' = closes
         /\ cycles' = cycles
         /\ pc' \in {"handler", "hijacked", "panic"}
         /\ c'.hijacked]_vars

\* serveConnection returned from a hijacked second cycle whose handler
\* went on to call Respond.
C3_Witness ==
    /\ pc = "hijacked"
    /\ c.hijacked
    /\ last.op = "Respond"
    /\ cycles = 2
    /\ closes = 0
    /\ wire = <<>>

\* The request's Connection header, lower-cased ("" when absent).
RequestConnection ==
    ToLower(GetDef(req.Header, HeaderConnection, <<>>))

\* The declared request body: Content-Length bytes, none when unknown.
DeclaredBody ==
    IF req.ContentLength > 0 THEN req.ContentLength ELSE 0

\* The Content-Length the handler passed to the Respond that was accepted.
DeclaredLength ==
    Get(respondArg.header, HeaderContentLength)

\* serveConnection is past finish in this cycle.
CycleDone ==
    finished.ran /\ pc \in {"closed", "served"}

\* The response of this cycle is complete: no Content-Length (the default
\* response included), or Content-Length N and exactly N body bytes.
CompleteResponse ==
    \/ ~respondArg.called
    \/ ~DeclaredLength.found
    \/ /\ DeclaredLength.found
       /\ Atoi(DeclaredLength.value).ok
       /\ bodyWritten = Atoi(DeclaredLength.value).val

\* C4: connection reuse. After a cycle for an HTTP/1.1 request without
\* Connection: close, with the request body fully consumed and a complete
\* response, on a socket whose writes all succeeded, serveConnection does
\* not close the socket: it goes on to the next request.
C4_ConnectionReuse ==
    (/\ CycleDone
     /\ ~broken
     /\ req.ProtocolVersion = ProtocolVersion(1, 1)
     /\ RequestConnection # StrClose
     /\ bodyRead = DeclaredBody
     /\ CompleteResponse)
    => (pc = "served" /\ closes = 0)

\* A keep-alive HTTP/1.1 cycle with no request body, Respond(200) with
\* Content-Length 2 and exactly 2 body bytes, ends with the socket closed.
C4_Witness ==
    /\ CycleDone
    /\ ~broken
    /\ req.ProtocolVersion = ProtocolVersion(1, 1)
    /\ RequestConnection = <<>>
    /\ DeclaredBody = 0
    /\ respondArg.called
    /\ respondArg.status = StatusOK
    /\ DeclaredLength.found
    /\ DeclaredLength.value = <<"2">>
    /\ bodyWritten = 2
    /\ pc = "closed"

\* C9: a fixed-length mismatch forces close. When the handler declared
\* Content-Length N in Respond and the body bytes it wrote by the time of
\* finish are not N, the socket is closed after the response and no
\* further request is prepared on it.
C9_LengthMismatchCloses ==
    (/\ CycleDone
     /\ respondArg.called
     /\ DeclaredLength.found
     /\ Atoi(DeclaredLength.value).ok
     /\ bodyWritten # Atoi(DeclaredLength.value).val)
    => (pc = "closed" /\ closes = 1)

\* Respond(200) with Content-Length 40 on a keep-alive HTTP/1.1 cycle, one
\* body byte written and flushed, and the socket stays open for the next
\* request.
C9_Witness ==
    /\ CycleDone
    /\ ~broken
    /\ respondArg.called
    /\ respondArg.status = StatusOK
    /\ DeclaredLength.found
    /\ DeclaredLength.value = <<"4", "0">>
    /\ bodyWritten = 1
    /\ SegsLen(wire) = 40
    /\ pc = "served"
    /\ closes = 0

\* C5: the close-after-response decision of prepare. Right after prepare,
\* closeAfterResponse is decided by the protocol version, the request's
\* content length and the lower-cased Connection header alone: from
\* HTTP/1.1 on, close iff Connection is close; for HTTP/1.0 with a known
\* content length, close iff Connection is not keep-alive; otherwise close.
C5_PrepareCloseDecision ==
    (pc = "handler" /\ ops = 0) =>
        c.closeAfterResponse =
            IF req.ProtocolVersion >= 1001
            THEN RequestConnection = StrClose
            ELSE IF req.ProtocolVersion = 1000 /\ req.ContentLength >= 0
            THEN RequestConnection # StrKeepAlive
            ELSE TRUE

\* An HTTP/1.0 request with a known content length and Connection:
\* Keep-Alive was prepared, and the connection stays open.
C5_Witness ==
    /\ pc = "handler"
    /\ ops = 0
    /\ req.ProtocolVersion = 1000
    /\ req.ContentLength >= 0
    /\ GetDef(req.Header, HeaderConnection, <<>>) = StrKeepAliveMixed
    /\ ~c.closeAfterResponse

\* C6: request-stream synchronisation. A cycle that ends with declared
\* request-body bytes unread ends with the socket closed, so the loop only
\* goes on to the next request with the whole declared body consumed; and
\* a Read after Respond returns no bytes.
C6_RequestStreamSync ==
    /\ [](pc = "served" => bodyRead = DeclaredBody)
    /\ [][(pc = "handler" /\ pc' \in {"closed", "served"}
             /\ bodyRead < DeclaredBody) =>
            (pc' = "closed" /\ closes' = closes + 1 /\ c'.closeAfterResponse)]_vars
    /\ [][(CallStep("Read") /\ c.respondCalled) =>
            (last'.n = 0 /\ last'.err # "nil" /\ bodyRead' = bodyRead
             /\ c'.requestAvail = c.requestAvail)]_vars

\* A keep-alive HTTP/1.1 request with a 2-byte body of which the handler
\* read one byte before a Respond without Content-Length: the socket is
\* closed after the response.
C6_Witness ==
    /\ CycleDone
    /\ pc = "closed"
    /\ ~broken
    /\ req.ProtocolVersion = ProtocolVersion(1, 1)
    /\ RequestConnection # StrClose
    /\ DeclaredBody = 2
    /\ bodyRead = 1
    /\ respondArg.called
    /\ respondArg.status = StatusOK
    /\ ~DeclaredLength.found

\* The one response head on the socket, when there is exactly one.
WireHead ==
    wire[CHOOSE i \in Heads(wire) : TRUE]

\* The body bytes on the socket.
WireData ==
    {i \in DOMAIN wire : wire[i].t = "data"}

\* C10: every cycle that is not hijacked produces a response. Past finish
\* Respond has been called; when the handler had not called it, finish has
\* made a status-200 response with the default Content-Type and no body,
\* through the request's current responder (each respond filter has added
\* its header), and on a socket whose writes succeed its head is on the
\* wire before the socket is closed or reused.
C10_DefaultResponse ==
    CycleDone =>
        /\ c.respondCalled
        /\ ~broken => Cardinality(Heads(wire)) = 1
        /\ (finished.defaulted /\ ~broken) =>
             /\ WireHead.status = StatusOK
             /\ Get(WireHead.header, HeaderContentType).found
             /\ Get(WireHead.header, HeaderContentType).value = StrDefaultContentType
             /\ Len(GetAll(WireHead.header, HeaderSetCookie)) = req.filters
             /\ WireData = {}

\* A handler that wrapped the responder in a filter and returned without
\* responding: the default response went out and the socket is reused.
C10_Witness ==
    /\ CycleDone
    /\ finished.defaulted
    /\ ~respondArg.called
    /\ req.filters = 1
    /\ ~broken
    /\ pc = "served"
    /\ WireHead.status = StatusOK

\* The terminal chunks on the socket.
WireLast ==
    {i \in DOMAIN wire : wire[i].t = "last"}

\* The response on the socket is chunked and complete: its head advertises
\* Transfer-Encoding: chunked, and the bytes end with the one terminal
\* chunk.
ChunkedAndTerminated ==
    /\ c.chunked
    /\ Cardinality(Heads(wire)) = 1
    /\ GetAll(WireHead.header, HeaderTransferEncoding) = <<StrChunked>>
    /\ Cardinality(WireLast) = 1
    /\ wire[Len(wire)].t = "last"

\* The response of this cycle was started without a Content-Length: by
\* finish, or by the handler's Respond.
NoDeclaredLength ==
    ~respondArg.called \/ ~DeclaredLength.found

WrittenKeys(head, name) ==
    {k \in DOMAIN head.header : HeaderName(k) = name /\ head.header[k] # <<>>}

\* The response head of this cycle, wherever it is by now.
WrittenHeads ==
    {wire[i] : i \in Heads(wire)} \cup {bw.buf[i] : i \in Heads(bw.buf)}

\* C8: the connection alone decides framing. No Transfer-Encoding header
\* of the caller is written: the written head carries a Transfer-Encoding
\* header exactly when the connection chose chunked framing, its value is
\* then chunked, and a head with a Content-Length carries none.
C8_ConnectionDecidesFraming ==
    \A h \in WrittenHeads :
       LET te == WrittenKeys(h, HeaderTransferEncoding)
       IN  /\ \A k \in te : h.header[k] = <<StrChunked>>
           /\ (te # {}) <=> c.chunked
           /\ WrittenKeys(h, HeaderContentLength) # {} => te = {}

\* Respond(200, {"transfer-encoding": "gzip"}): the caller's header is on
\* the socket, beside the connection's own.
C8_Witness ==
    /\ respondArg.called
    /\ Cardinality(Heads(wire)) = 1
    /\ GetAll(WireHead.header, LowerTransferEncoding) = <<StrGzip>>
    /\ ~broken

\* Nothing of a request cycle has happened: no Request, no handler call,
\* no finish, no byte written.
NothingServed ==
    /\ req = NoRequest
    /\ c.req = "nil"
    /\ ops = 0
    /\ ~finished.ran
    /\ wire = <<>>

\* C11: on any failure of request-line or header parsing (malformed
\* request line, continuation before the first header, missing key or
\* colon, input ending before the empty line) no Request is produced, no
\* handler is invoked, nothing is written, and serveConnection closes the
\* socket.
C11_ParseFailureCloses ==
    (pc # "prepare" /\ ParseRequest(input).status # "ok")
    => (pc = "closed" /\ closes = 1 /\ NothingServed)

\* A header line that is only a key: parseHeader reads the byte after the
\* key of an empty slice, and the program stops with a runtime error.
C11_Witness ==
    /\ pc = "panic"
    /\ closes = 0
    /\ input = <<StrGET \o <<" ", "/", " ">> \o ProtoHTTP11 \o StrCRLF,
                 HeaderCookie \o StrCRLF, StrCRLF>>

\* The request parsed, and its Content-Length is no number.
BadContentLength ==
    /\ ParseRequest(input).status = "ok"
    /\ Get(ParseRequest(input).header, HeaderContentLength).found
    /\ ~Atoi(Get(ParseRequest(input).header, HeaderContentLength).value).ok

\* C12: a request whose Content-Length is no number is answered: once
\* prepare is over a response head with an error status is on the socket,
\* and the connection was not dropped without a response.
C12_BadContentLengthAnswered ==
    (pc # "prepare" /\ BadContentLength)
    => /\ Cardinality(Heads(wire)) + Cardinality(Heads(bw.buf)) = 1
       /\ \A h \in WrittenHeads : h.status = StatusBadRequest

\* A well-formed request with Content-Length: x: the socket is closed and
\* nothing was written.
C12_Witness ==
    /\ pc = "closed"
    /\ closes = 1
    /\ BadContentLength
    /\ NothingServed

\* A socket write of the response has failed in this cycle.
ResponseWriteFailed ==
    c.responseErr = "EIO"

\* C13: an I/O error while writing the response is sticky and ends the
\* connection. Once a response write has failed, every later body write of
\* the cycle returns that error, no further byte reaches the socket, and
\* after the cycle the socket is closed and not reused.
C13_WriteErrorEndsConnection ==
    [][/\ (ResponseWriteFailed /\ CallStep("Write")) => last'.err = "EIO"
       /\ (ResponseWriteFailed /\ pc = "handler") => wire' = wire
       /\ (ResponseWriteFailed /\ pc = "handler" /\ pc' # "handler")
            => (pc' = "closed" /\ closes' = closes + 1)]_vars

\* C13: a cycle whose response write failed, with the socket left open for
\* the next request.
C13_Witness ==
    /\ pc = "served"
    /\ c.responseErr = "EIO"
    /\ broken
    /\ closes = 0

\* The interim responses among the segments w.
Continues(w) ==
    {i \in DOMAIN w : w[i].t = "100"}

\* The request of this cycle carries Expect: 100-continue.
RequestExpects ==
    /\ req # NoRequest
    /\ Get(req.Header, HeaderExpect).found
    /\ ToLower(Get(req.Header, HeaderExpect).value) = Str100Continue

\* C14: 100 Continue is lazy and at most once. Prepare writes nothing and
\* arms the interim response exactly for a request with Expect:
\* 100-continue; it is written by the first Read of the body (on a socket
\* that works), by no other call, at most once in a cycle, never for a
\* request that did not ask for it and never after Respond.
C14_LazyContinue ==
    [][/\ Cardinality(Continues(wire')) <= 1
       /\ (pc = "prepare" /\ pc' = "handler")
            => (wire' = <<>> /\ (c'.write100Continue <=> RequestExpects'))
       /\ ~(Continues(wire') \subseteq Continues(wire))
            => /\ CallStep("Read")
               /\ RequestExpects
               /\ c.write100Continue
               /\ ~c.respondCalled
               /\ bodyRead = 0
               /\ Continues(wire) = {}
       /\ (CallStep("Read") /\ c.requestErr = "nil")
            => /\ ~c'.write100Continue
               /\ (c.write100Continue /\ ~broken') => Continues(wire') = {1}
       /\ (pc = "handler" /\ ~RequestExpects) => ~c.write100Continue]_vars

\* C14: the interim response was written by a Read that returned body
\* bytes, a second Read followed, and then the response was started.
C14_Witness ==
    /\ Continues(wire) = {1}
    /\ RequestExpects
    /\ bodyRead = 2
    /\ c.respondCalled
    /\ Cardinality(Heads(wire)) + Cardinality(Heads(bw.buf)) = 1

\* The bytes of the stream still to come from the socket.
StreamRest ==
    SubSeq(rd.stream, rd.sock + 1, Len(rd.stream))

\* C15: Hijack loses no data. After a successful Hijack the returned
\* buffer followed by the bytes read from the returned socket (and those
\* still to come) is exactly the stream behind the header block without
\* the bytes req.Body gave the handler, in order, none dropped and none
\* twice; the owner's reader hands them out in that order.
C15_HijackLosesNoData ==
    rd.hijacked
    => /\ rd.body \o rd.hbuf \o rd.taken \o StreamRest = rd.stream
       /\ rd.owner = SubSeq(rd.hbuf \o rd.taken, 1, Len(rd.owner))
       /\ Len(rd.body) = bodyRead

\* C15: the handler read one byte of the body, Hijack returned a buffered
\* byte, and the owner has read it and the byte that came after it.
C15_Witness ==
    /\ rd.hijacked
    /\ last.op = "Hijack"
    /\ last.conn = "sock"
    /\ rd.body = <<1>>
    /\ rd.hbuf = <<2>>
    /\ rd.owner = <<2, 3>>

\* A request has been dispatched through the router.
Dispatched ==
    router # NoRouter /\ router.served # NotServed

\* Route i's matcher accepts the path of the request.
RouteMatches(i) ==
    FindStringSubmatch(router.routes[i].regexp, router.path).ok

\* The first route, in the order of registration, whose matcher accepts
\* the path; 0 when none does.
WinningRoute ==
    IF \E i \in DOMAIN router.routes : RouteMatches(i)
    THEN CHOOSE i \in DOMAIN router.routes :
           RouteMatches(i) /\ \A j \in 1..(i - 1) : ~RouteMatches(j)
    ELSE 0

\* The outcome is the response 404, 405 or 400 of the router.
ServedError(status) ==
    /\ router.served.kind = "error"
    /\ router.served.status = status

\* C16: first-match routing. The outcome of a dispatch is the one the first
\* route whose matcher accepts the path gives on its own: a handler that
\* runs belongs to that route, no later route is consulted even if it
\* matches and has a handler for the method, and the outcome is 404
\* exactly when no route's matcher accepts the path.
C16_FirstMatchRouting ==
    Dispatched
    => /\ ServedError(404) <=> WinningRoute = 0
       /\ WinningRoute # 0
            => /\ router.served =
                    RouterServeWeb(<<router.routes[WinningRoute]>>, router.path,
                                   router.method, router.query, router.param)
               /\ router.served.kind = "handler"
                    => router.served.handler \in
                         {router.routes[WinningRoute].handlers[m] :
                            m \in DOMAIN router.routes[WinningRoute].handlers}

\* C16: /x registered for HEAD and GET and then /x for POST; a POST to /x
\* gets 405.
C16_Witness ==
    /\ Dispatched
    /\ Len(router.routes) = 2
    /\ router.routes[1].pattern = <<"/", "x">>
    /\ router.routes[2].pattern = <<"/", "x">>
    /\ DOMAIN router.routes[1].handlers = {StrHEAD, StrGET}
    /\ DOMAIN router.routes[2].handlers = {StrPOST}
    /\ router.path = <<"/", "x">>
    /\ router.method = StrPOST
    /\ ServedError(405)

\* The path lacks the trailing slash.
LacksSlash ==
    router.path = <<>> \/ router.path[Len(router.path)] # "/"

\* The texts the winning route's matcher captured in the path.
Captures ==
    FindStringSubmatch(router.routes[WinningRoute].regexp, router.path).values

\* The winning route neither redirects for the slash nor fails to unescape
\* a captured text: find gets as far as the handlers of the route.
MethodResolved ==
    /\ Dispatched
    /\ WinningRoute # 0
    /\ ~(router.routes[WinningRoute].addSlash /\ LacksSlash)
    /\ \A j \in DOMAIN Captures : URLUnescape(Captures[j]).ok

\* The handlers of the winning route, by method.
WinningHandlers ==
    router.routes[WinningRoute].handlers

\* C17: method resolution in the winning route. The handler that runs is
\* the one registered for the request method; else, for HEAD only, the one
\* for GET; else the one for "*"; else the outcome is 405. For a route with
\* a GET handler and no HEAD handler, HEAD and GET give the same handler
\* with the same parameters.
C17_MethodResolution ==
    MethodResolved
    => /\ IF router.method \in DOMAIN WinningHandlers
          THEN /\ router.served.kind = "handler"
               /\ router.served.handler = WinningHandlers[router.method]
          ELSE IF router.method = StrHEAD /\ StrGET \in DOMAIN WinningHandlers
          THEN /\ router.served.kind = "handler"
               /\ router.served.handler = WinningHandlers[StrGET]
          ELSE IF <<"*">> \in DOMAIN WinningHandlers
          THEN /\ router.served.kind = "handler"
               /\ router.served.handler = WinningHandlers[<<"*">>]
          ELSE ServedError(405)
       /\ (StrGET \in DOMAIN WinningHandlers /\ StrHEAD \notin DOMAIN WinningHandlers)
            => RouterServeWeb(router.routes, router.path, StrHEAD,
                              router.query, router.param)
               = RouterServeWeb(router.routes, router.path, StrGET,
                                router.query, router.param)

\* C17: a HEAD request to a route with handlers for GET and "*" runs the
\* GET handler, with the route's parameter.
C17_Witness ==
    /\ MethodResolved
    /\ router.method = StrHEAD
    /\ DOMAIN WinningHandlers = {StrGET, <<"*">>}
    /\ router.served.kind = "handler"
    /\ router.served.handler = WinningHandlers[StrGET]
    /\ StrParamA \in DOMAIN router.served.param

\* The winning route's pattern ends in '/'.
WinningPatternSlash ==
    /\ Dispatched
    /\ WinningRoute # 0
    /\ router.routes[WinningRoute].pattern[Len(router.routes[WinningRoute].pattern)] = "/"

\* The URL of the slash redirect: the path, '/', and '?' with the query
\* when there is one.
SlashLocation ==
    IF router.query # <<>>
    THEN router.path \o <<"/">> \o <<"?">> \o router.query
    ELSE router.path \o <<"/">>

\* C18: slash normalisation. When the winning route's pattern ends in '/'
\* and the path lacks the trailing slash, the outcome is a redirect to the
\* path plus '/' (and '?' with the query), for every method, and no
\* registered handler runs; when the path ends in '/', there is no
\* redirect, and a handler that runs gets the route's parameters.
C18_SlashNormalisation ==
    WinningPatternSlash
    => IF LacksSlash
       THEN /\ router.served.kind = "redirect"
            /\ router.served.location = SlashLocation
       ELSE /\ router.served.kind \in {"handler", "error"}
            /\ router.served.kind = "handler"
                 => \A k \in DOMAIN router.routes[WinningRoute].names :
                      router.routes[WinningRoute].names[k]
                        \in DOMAIN router.served.param

\* C18: the route / is registered and the request has an empty path: the
\* dispatch ends in a runtime error.
C18_Witness ==
    /\ WinningPatternSlash
    /\ router.routes[WinningRoute].pattern = <<"/">>
    /\ router.path = <<>>
    /\ router.served.kind = "panic"

RECURSIVE PercentDecodedFrom(_, _)
\* The text s with each %XY replaced by the byte 0xXY and every other byte
\* as it is.
PercentDecodedFrom(s, out) ==
    IF s = <<>> THEN out
    ELSE IF Head(s) = "%" /\ Len(s) >= 3 /\ IsHex(s[2]) /\ IsHex(s[3])
    THEN PercentDecodedFrom(SubSeq(s, 4, Len(s)),
                            Append(out, ByteOf(16 * Unhex(s[2]) + Unhex(s[3]))))
    ELSE PercentDecodedFrom(Tail(s), Append(out, Head(s)))

\* The names of the winning route's parameters, in template order.
WinningNames ==
    router.routes[WinningRoute].names

\* C19: path parameters. When a registered handler runs, each named
\* parameter of the winning route is in the request's parameter map with
\* exactly one value, the percent-decoded text captured for it (names and
\* captures paired in template order), whatever the query had under that
\* name, and the other parameters are as they were; when the outcome is
\* 404, 405, 400 or the slash redirect, the map is as the request came.
C19_PathParameters ==
    Dispatched
    => /\ router.served.kind = "handler"
            => /\ DOMAIN router.served.param
                    = DOMAIN router.param
                      \cup {WinningNames[k] : k \in DOMAIN WinningNames}
               /\ \A k \in DOMAIN WinningNames :
                    router.served.param[WinningNames[k]]
                      = <<PercentDecodedFrom(Captures[k], <<>>)>>
               /\ \A key \in DOMAIN router.param :
                    (\A k \in DOMAIN WinningNames : WinningNames[k] # key)
                      => router.served.param[key] = router.param[key]
       /\ router.served.kind \in {"error", "redirect"}
            => router.served.param = router.param

\* C19: the route /<a>/ and the path /+/, with a=1 in the query: the
\* handler runs with a bound to a space.
C19_Witness ==
    /\ Dispatched
    /\ router.served.kind = "handler"
    /\ router.routes[WinningRoute].pattern = <<"/", "<", "a", ">", "/">>
    /\ router.path = <<"/", "+", "/">>
    /\ router.param = MapSet(EmptyMap, StrParamA, <<"1">>)
    /\ router.served.param = MapSet(EmptyMap, StrParamA, <<" ">>)

\* find unescapes the captures of the winning route, and one of them does
\* not unescape.
DecodeFails ==
    /\ Dispatched
    /\ WinningRoute # 0
    /\ ~(router.routes[WinningRoute].addSlash /\ LacksSlash)
    /\ \E j \in DOMAIN Captures : ~URLUnescape(Captures[j]).ok

\* C20: a captured parameter of the first matching route that does not
\* decode gives 400 Bad Request through the request's error handler; no
\* later route is tried, no registered handler runs and no parameter is
\* merged.
C20_DecodeFailure ==
    DecodeFails
    => /\ ServedError(400)
       /\ router.served.handler = RouterError(400)
       /\ router.served.param = router.param

\* C20: /<a>/ is registered before the literal route /%2/, both with a GET
\* handler; GET /%2/ gets 400 although the second route would serve it.
C20_Witness ==
    /\ DecodeFails
    /\ Len(router.routes) = 2
    /\ router.routes[1].pattern = <<"/", "<", "a", ">", "/">>
    /\ router.routes[2].pattern = <<"/", "%", "2", "/">>
    /\ router.path = <<"/", "%", "2", "/">>
    /\ router.method = StrGET
    /\ StrGET \in DOMAIN router.routes[1].handlers
    /\ StrGET \in DOMAIN router.routes[2].handlers
    /\ RouterServeWeb(<<router.routes[2]>>, router.path, router.method,
                      router.query, router.param).kind = "handler"
    /\ ServedError(400)

\* The call g of Register has a pattern that starts with '/' and a list of
\* one or more pairs of a string and a handler.
WellFormedCall(g) ==
    /\ g.pattern # <<>>
    /\ g.pattern[1] = "/"
    /\ Len(g.handlers) > 0
    /\ Len(g.handlers) % 2 = 0
    /\ \A i \in DOMAIN g.handlers :
         IF i % 2 = 1
         THEN g.handlers[i].type = "string"
         ELSE g.handlers[i].type \in {"Handler", "func(*Request)"}

\* This step is a call of Register.
RegisterStep ==
    router'.registered # router.registered

\* C21: Register fails fast and atomically. A call with a bad pattern or a
\* bad handler list panics and leaves the route table as it was; a call
\* that succeeds appends exactly one route, the one of its pattern, behind
\* the routes there were; serving a request leaves the table alone.
C21_RegisterAtomic ==
    [][/\ RegisterStep
            => IF WellFormedCall(router'.registered)
               THEN /\ ~router'.registered.panic
                    /\ Len(router'.routes) = Len(router.routes) + 1
                    /\ SubSeq(router'.routes, 1, Len(router.routes))
                         = router.routes
                    /\ router'.routes[Len(router'.routes)].pattern
                         = router'.registered.pattern
               ELSE /\ router'.registered.panic
                    /\ router'.routes = router.routes
       /\ ~RegisterStep => router'.routes = router.routes]_vars

\* C21: with one route registered, a call whose second pair has no handler
\* panicked, and the table still holds the one route.
C21_Witness ==
    /\ router.registered.panic
    /\ Len(router.registered.handlers) = 4
    /\ router.registered.handlers[2].type = "Handler"
    /\ router.registered.handlers[4].type = "int"
    /\ Len(router.routes) = 1

\* ------------------------------------------------------------------------
\* Header names and continuation lines
\* ------------------------------------------------------------------------

LetterSet(letters) ==
    {letters[i] : i \in 1..Len(letters)}

\* A header name in canonical form: no lower case letter at the start of a
\* word, no upper case letter elsewhere.
IsCanonical(k) ==
    \A i \in 1..Len(k) :
        IF i = 1 \/ k[i - 1] = "-"
        THEN k[i] \notin LetterSet(LowerLetters)
        ELSE k[i] \notin LetterSet(UpperLetters)

WhiteSpace ==
    {" ", "\t", "\r", "\n"}

\* The name a header line was sent with: what precedes the colon or space.
SentName(line) ==
    SubSeq(line, 1,
           CHOOSE n \in 0..Len(line) :
               /\ \A i \in 1..n : line[i] \notin WhiteSpace \cup {":"}
               /\ n = Len(line) \/ line[n + 1] \in WhiteSpace \cup {":"})

\* The text of s without the white space around it.
Trimmed(s) ==
    IF \A i \in 1..Len(s) : s[i] \in WhiteSpace
    THEN <<>>
    ELSE SubSeq(s,
                CHOOSE a \in 1..Len(s) :
                    /\ s[a] \notin WhiteSpace
                    /\ \A i \in 1..(a - 1) : s[i] \in WhiteSpace,
                CHOOSE b \in 1..Len(s) :
                    /\ s[b] \notin WhiteSpace
                    /\ \A i \in (b + 1)..Len(s) : s[i] \in WhiteSpace)

\* The value a header line was sent with: what follows the first colon.
SentValue(line) ==
    Trimmed(SubSeq(line, IndexOf(line, ":") + 1, Len(line)))

IsContinuation(line) ==
    Len(line) > 0 /\ line[1] \in {" ", "\t"}

\* The lines between the request line and the empty line.
SentHeaderLines(lines) ==
    SubSeq(lines, 2, Len(lines) - 1)

\* The positions, in order, of the header lines sent with the name of key k
\* in any letter case.
SentUnder(lines, k) ==
    LET named(i) == /\ ~IsContinuation(lines[i])
                    /\ ToLower(SentName(lines[i])) = ToLower(k)
        RECURSIVE from(_)
        from(i) == IF i > Len(lines) THEN <<>>
                   ELSE IF named(i) THEN <<i>> \o from(i + 1)
                   ELSE from(i + 1)
    IN  from(1)

IsPrefix(s, t) ==
    Len(s) <= Len(t) /\ SubSeq(t, 1, Len(s)) = s

\* The request of input was parsed and handed to the handler.
ParsedInput ==
    pc = "handler" /\ input # NoInput

\* C22: every key of a successfully parsed header map is in canonical form,
\* no two keys differ only in letter case, and a key holds one value for
\* each header line sent with its name in any letter case, in the order
\* the lines arrived.
C22_CanonicalHeaderNames ==
    ParsedInput =>
        /\ \A k \in DOMAIN req.Header :
              /\ IsCanonical(k)
              /\ Len(req.Header[k]) =
                     Len(SentUnder(SentHeaderLines(input), k))
              /\ \A i \in 1..Len(req.Header[k]) :
                     IsPrefix(
                         SentValue(SentHeaderLines(input)[
                             SentUnder(SentHeaderLines(input), k)[i]]),
                         req.Header[k][i])
        /\ \A k1, k2 \in DOMAIN req.Header :
              ToLower(k1) = ToLower(k2) => k1 = k2
        /\ \A i \in 1..Len(SentHeaderLines(input)) :
              ~IsContinuation(SentHeaderLines(input)[i]) =>
                  \E k \in DOMAIN req.Header :
                      ToLower(k) = ToLower(SentName(SentHeaderLines(input)[i]))

\* "CoOkie: x" then "Cookie:y" were parsed: Cookie = [x, y].
C22_Witness ==
    /\ ParsedInput
    /\ Len(input) = 4
    /\ SentName(input[2]) = <<"C", "o", "O", "k", "i", "e">>
    /\ SentName(input[3]) = HeaderCookie
    /\ DOMAIN req.Header = {HeaderCookie}
    /\ req.Header[HeaderCookie] = <<<<"x">>, <<"y">>>>

\* The text the continuation lines from position i on add to a value when
\* every one of them adds a space and its trimmed text.
RECURSIVE ContinuedAlways(_, _)
ContinuedAlways(lines, i) ==
    IF i > Len(lines) \/ ~IsContinuation(lines[i])
    THEN <<>>
    ELSE <<" ">> \o Trimmed(lines[i]) \o ContinuedAlways(lines, i + 1)

\* The same when a continuation line of white space only adds nothing.
RECURSIVE Continued(_, _)
Continued(lines, i) ==
    IF i > Len(lines) \/ ~IsContinuation(lines[i])
    THEN <<>>
    ELSE (IF Trimmed(lines[i]) = <<>> THEN <<>>
          ELSE <<" ">> \o Trimmed(lines[i]))
         \o Continued(lines, i + 1)

\* The input's first header line begins with white space.
ContinuationFirst ==
    /\ input # NoInput
    /\ Len(input) >= 2
    /\ IsContinuation(input[2])

\* C23, as stated: the value of a header line is its own value followed,
\* for every continuation line after it, by one space and the line's
\* trimmed text; a continuation line makes no new entry; a continuation
\* line before any header line makes the parse fail.
C23_ContinuationAsStated ==
    /\ ParsedInput =>
          \A k \in DOMAIN req.Header :
              /\ Len(req.Header[k]) =
                     Len(SentUnder(SentHeaderLines(input), k))
              /\ \A i \in 1..Len(req.Header[k]) :
                     req.Header[k][i] =
                         SentValue(SentHeaderLines(input)[
                             SentUnder(SentHeaderLines(input), k)[i]])
                         \o ContinuedAlways(
                                SentHeaderLines(input),
                                SentUnder(SentHeaderLines(input), k)[i] + 1)
    /\ ContinuationFirst => pc \in {"prepare", "closed"}

\* C23, amended: the same, except that a continuation line holding white
\* space only leaves the value as it was.
C23_Continuation ==
    /\ ParsedInput =>
          \A k \in DOMAIN req.Header :
              /\ Len(req.Header[k]) =
                     Len(SentUnder(SentHeaderLines(input), k))
              /\ \A i \in 1..Len(req.Header[k]) :
                     req.Header[k][i] =
                         SentValue(SentHeaderLines(input)[
                             SentUnder(SentHeaderLines(input), k)[i]])
                         \o Continued(
                                SentHeaderLines(input),
                                SentUnder(SentHeaderLines(input), k)[i] + 1)
    /\ ContinuationFirst => pc \in {"prepare", "closed"}

\* "CoOkie: x" then " z " were parsed: Cookie = ["x z"].
C23_Witness ==
    /\ ParsedInput
    /\ Len(input) = 4
    /\ SentValue(input[2]) = <<"x">>
    /\ IsContinuation(input[3])
    /\ Trimmed(input[3]) = <<"z">>
    /\ req.Header = [k \in {HeaderCookie} |-> <<<<"x", " ", "z">>>>]

\* ------------------------------------------------------------------------
\* WebSocket: the key of a key header
\* ------------------------------------------------------------------------

HeaderOrigin ==
    <<"O", "r", "i", "g", "i", "n">>
HeaderUpgrade ==
    <<"U", "p", "g", "r", "a", "d", "e">>
HeaderSecWebSocketKey1 ==
    <<"S", "e", "c", "-", "W", "e", "b", "s", "o", "c", "k", "e", "t", "-",
      "K", "e", "y", "1">>
HeaderSecWebSocketKey2 ==
    <<"S", "e", "c", "-", "W", "e", "b", "s", "o", "c", "k", "e", "t", "-",
      "K", "e", "y", "2">>
HeaderSecWebSocketProtocol ==
    <<"S", "e", "c", "-", "W", "e", "b", "s", "o", "c", "k", "e", "t", "-",
      "P", "r", "o", "t", "o", "c", "o", "l">>
StrWebSocket ==
    <<"w", "e", "b", "s", "o", "c", "k", "e", "t">>

\* A uint32 is kept as two 16-bit halves, hi * 65536 + lo.
Half == 65536

Uint32(hi, lo) ==
    [hi |-> hi, lo |-> lo]

\* n*10 + uint32(b) - '0' for a digit of value v, modulo 2^32.
Uint32MulAdd(n, v) ==
    Uint32((n.hi * 10 + (n.lo * 10 + v) \div Half) % Half,
           (n.lo * 10 + v) % Half)

\* n % d for a d below 2^15.
Uint32Mod(n, d) ==
    ((n.hi % d) * Half + n.lo) % d

\* n / d for a d below 2^15.
Uint32Div(n, d) ==
    Uint32(n.hi \div d, ((n.hi % d) * Half + n.lo) \div d)

\* binary.BigEndian.PutUint32
PutUint32(n) ==
    <<n.hi \div 256, n.hi % 256, n.lo \div 256, n.lo % 256>>

RECURSIVE webSocketKeyScan(_, _, _)
\* webSocketKey, its loop over the bytes of s: the digits go into n, the
\* spaces are counted in d (d stays below the length of a header value).
webSocketKeyScan(s, n, d) ==
    IF s = <<>> THEN [n |-> n, d |-> d]
    ELSE IF Head(s) = " " THEN webSocketKeyScan(Tail(s), n, d + 1)
    ELSE IF IndexOf(Digits, Head(s)) > 0
    THEN webSocketKeyScan(Tail(s),
                          Uint32MulAdd(n, IndexOf(Digits, Head(s)) - 1), d)
    ELSE webSocketKeyScan(Tail(s), n, d)

\* webSocketKey after the loop gave n and d.
webSocketKeyOf(r) ==
    IF r.d = 0 \/ Uint32Mod(r.n, r.d) # 0
    THEN [key |-> <<>>, err |-> "bad key"]
    ELSE [key |-> PutUint32(Uint32Div(r.n, r.d)), err |-> "nil"]

\* webSocketKey
webSocketKey(header, name) ==
    IF ~Get(header, name).found
    THEN [key |-> <<>>, err |-> "missing key"]
    ELSE webSocketKeyOf(webSocketKeyScan(Get(header, name).value,
                                         Uint32(0, 0), 0))

\* ------------------------------------------------------------------------
\* WebSocket: bytes, the handshake, Send and Receive
\* ------------------------------------------------------------------------

\* n bytes of value b, on the socket or in a buffer.
Run(b, n) ==
    [Seg("byte", n) EXCEPT !.status = b]

RECURSIVE RunsTake(_, _)
\* The first k bytes of runs.
RunsTake(runs, k) ==
    IF k <= 0 \/ runs = <<>> THEN <<>>
    ELSE IF Head(runs).n <= k
    THEN <<Head(runs)>> \o RunsTake(Tail(runs), k - Head(runs).n)
    ELSE <<[Head(runs) EXCEPT !.n = k]>>

RECURSIVE RunsDrop(_, _)
\* runs without its first k bytes.
RunsDrop(runs, k) ==
    IF k <= 0 \/ runs = <<>> THEN runs
    ELSE IF Head(runs).n <= k
    THEN RunsDrop(Tail(runs), k - Head(runs).n)
    ELSE <<[Head(runs) EXCEPT !.n = @ - k]>> \o Tail(runs)

RECURSIVE RunsIndex(_, _, _)
\* The number of bytes of runs before the first byte b, -1 when there is
\* none; at counts the bytes passed.
RunsIndex(runs, b, at) ==
    IF runs = <<>> THEN -1
    ELSE IF Head(runs).status = b /\ Head(runs).n > 0 THEN at
    ELSE RunsIndex(Tail(runs), b, at + Head(runs).n)

RECURSIVE RunsBytes(_)
\* The bytes of runs one by one.
RunsBytes(runs) ==
    IF runs = <<>> THEN <<>>
    ELSE [i \in 1..Head(runs).n |-> Head(runs).status] \o RunsBytes(Tail(runs))

\* bufio.NewWriter(conn)
NewSocketWriter ==
    [kind |-> "socket", buf |-> <<>>, err |-> "nil"]

RECURSIVE BufWriteAll(_, _)
\* bw.Write or bw.WriteString of each of segs in turn, the results dropped.
BufWriteAll(st, segs) ==
    IF segs = <<>> THEN st
    ELSE BufWriteAll(BufWrite(st, Head(segs), 0).st, Tail(segs))

\* The reader of NewWebSocketConn: io.MultiReader of the bytes Hijack
\* returned and the socket, or the socket alone when there are none.
MultiReader(buffered, socket) ==
    IF SegsLen(buffered) > 0 THEN buffered \o socket ELSE socket

\* The state of one upgrade before NewWebSocketConn is called: the request's
\* host and path, the bytes behind the header block (those prepare has read
\* into its buffer and those still on the socket) and whether the peer has
\* closed its side after them. stream is what the reader of the
\* WebSocketConn has yet to return.
WebSocketRequest(host, rawPath, buffered, socket, eof) ==
    [host |-> host, rawPath |-> rawPath, buffered |-> buffered,
     socket |-> socket, eof |-> eof, state |-> "request", err |-> "nil",
     bw |-> NoWriter, stream |-> <<>>, sent |-> <<>>, received |-> <<>>,
     echoed |-> 0]

\* What NewWebSocketConn leaves: the working state of the connection, the
\* upgrade, the calls of conn.Close it made and whether it panicked.
Upgraded(st, w, closed, panic) ==
    [st |-> st, w |-> w, closes |-> closed, panic |-> panic]

\* A failed upgrade that leaves the socket open.
UpgradeFailedOpen(st, w, err) ==
    Upgraded(st, [w EXCEPT !.state = "failed", !.err = err], 0, FALSE)

\* return nil, err: the deferred function closes the socket.
UpgradeFailed(st, w, err) ==
    Upgraded(st, [w EXCEPT !.state = "failed", !.err = err], 1, FALSE)

\* The bytes of the handshake response, one run for each Write: md5 is
\* kept as the bytes it was computed from.
HandshakeResponse(rq, w, response) ==
    <<Seg("handshake", 41), Seg("handshake", 20), Seg("handshake", 21),
      Seg("handshake", 26), Seg("handshake", 5 + Len(w.host) + Len(w.rawPath)),
      Seg("handshake", 24),
      Seg("handshake", Len(Get(rq.Header, HeaderOrigin).value))>>
    \o (IF Len(GetDef(rq.Header, HeaderSecWebSocketProtocol, <<>>)) > 0
        THEN <<Seg("handshake", 26),
               Seg("handshake",
                   Len(GetDef(rq.Header, HeaderSecWebSocketProtocol, <<>>)))>>
        ELSE <<>>)
    \o <<Seg("handshake", 4), [Seg("digest", 16) EXCEPT !.text = response]>>

\* NewWebSocketConn after bw.Flush led to st.
UpgradeFlushed(st, w) ==
    IF st.bw.err # "nil"
    THEN UpgradeFailed(st, [w EXCEPT !.bw = st.bw], st.bw.err)
    ELSE Upgraded(st, [w EXCEPT !.bw = st.bw, !.state = "open",
                                !.echoed = Len(st.wire)],
                  0, FALSE)

\* NewWebSocketConn from io.ReadFull(br, key3) on.
UpgradeRespond(rq, w, st, key1, key2) ==
    IF SegsLen(w.stream) < 8
    THEN UpgradeFailed(st, [w EXCEPT !.stream = <<>>],
                       IF SegsLen(w.stream) = 0 THEN "EOF"
                       ELSE "ErrUnexpectedEOF")
    ELSE UpgradeFlushed(
           BufFlush(BufWriteAll(
               st,
               HandshakeResponse(rq, w,
                   key1 \o key2 \o RunsBytes(RunsTake(w.stream, 8))))),
           [w EXCEPT !.stream = RunsDrop(@, 8)])

\* NewWebSocketConn, its two key headers.
UpgradeKeys(rq, w, st, key1, key2) ==
    IF key1.err # "nil" THEN UpgradeFailed(st, w, key1.err)
    ELSE IF key2.err # "nil" THEN UpgradeFailed(st, w, key2.err)
    ELSE UpgradeRespond(rq, w, st, key1.key, key2.key)

\* NewWebSocketConn, its checks of the request.
UpgradeChecks(rq, w, st) ==
    IF rq.Method # StrGET
    THEN UpgradeFailed(st, w, "bad request method")
    ELSE IF ~Get(rq.Header, HeaderOrigin).found
    THEN UpgradeFailed(st, w, "origin missing")
    ELSE IF ToLower(GetDef(rq.Header, HeaderConnection, <<>>)) # StrUpgrade
    THEN UpgradeFailed(st, w, "connection header missing or wrong value")
    ELSE IF ToLower(GetDef(rq.Header, HeaderUpgrade, <<>>)) # StrWebSocket
    THEN UpgradeFailed(st, w, "upgrade header missing or wrong value")
    ELSE UpgradeKeys(rq, w, st,
                     webSocketKey(rq.Header, HeaderSecWebSocketKey1),
                     webSocketKey(rq.Header, HeaderSecWebSocketKey2))

\* NewWebSocketConn after req.Responder.Hijack() returned h: an error is a
\* panic; otherwise the reader and the writer are made and the request is
\* checked.
UpgradeHijacked(rq, w, st, h) ==
    IF h.panic \/ h.err # "nil"
    THEN Upgraded(st, [w EXCEPT !.state = "panic"], 0, TRUE)
    ELSE UpgradeChecks(
           rq,
           [w EXCEPT !.stream = MultiReader(w.buffered, w.socket)],
           [st EXCEPT !.c = h.c, !.bw = NewSocketWriter])

\* NewWebSocketConn
NewWebSocketConn(rq, w, st) ==
    UpgradeHijacked(rq, w, st, ConnHijack(st.c))

\* WebSocketConn.Send after the writes and the Flush led to st.
Sent(st, w, p) ==
    [st |-> st, err |-> st.bw.err,
     w |-> [w EXCEPT !.bw = st.bw,
                     !.sent = IF st.bw.err = "nil" THEN Append(@, p) ELSE @]]

\* WebSocketConn.Send: 0x00, the bytes of p, 0xff, and a Flush.
Send(st, w, p) ==
    Sent(BufFlush(BufWriteAll([st EXCEPT !.bw = w.bw],
                              <<Run(0, 1)>> \o p \o <<Run(255, 1)>>)),
         w, p)

\* What Receive returns and the bytes it leaves unread.
Received(w, p, err, rest) ==
    [w EXCEPT !.stream = rest, !.received = Append(@, [p |-> p, err |-> err])]

\* WebSocketConn.Receive after the byte 0x00: ReadSlice(0xff) on the bytes
\* rest. The slice is cut from the reader's buffer of BufSize bytes: a
\* terminator that is not among the first BufSize bytes is not found.
ReceiveSlice(w, rest) ==
    IF RunsIndex(rest, 255, 0) >= 0 /\ RunsIndex(rest, 255, 0) < BufSize
    THEN Received(w, RunsTake(rest, RunsIndex(rest, 255, 0)), "nil",
                  RunsDrop(rest, RunsIndex(rest, 255, 0) + 1))
    ELSE IF SegsLen(rest) >= BufSize
    THEN Received(w, <<>>, "ErrBufferFull", RunsDrop(rest, BufSize))
    ELSE Received(w, <<>>, "EOF", <<>>)


\* WebSocketConn.Receive: one byte, which must be 0x00, then the bytes up
\* to 0xff.
Receive(w) ==
    IF SegsLen(w.stream) = 0
    THEN Received(w, <<>>, "EOF", <<>>)
    ELSE IF RunsBytes(RunsTake(w.stream, 1))[1] # 0
    THEN Received(w, <<>>, "unexpected framing", RunsDrop(w.stream, 1))
    ELSE ReceiveSlice(w, RunsDrop(w.stream, 1))

\* ------------------------------------------------------------------------
\* A handler that upgrades the connection and talks to an echoing peer
\* ------------------------------------------------------------------------

\* Calls of Send and Receive on one WebSocketConn are at most this many.
MaxFrames == 4

\* An Origin so long that the handshake response is longer than the
\* writer's buffer.
LongOriginLen == 4000

StrOrigin ==
    <<"o">>
LongOrigin ==
    [i \in 1..LongOriginLen |-> "o"]
StrHost ==
    <<"h">>
StrPath ==
    <<"/", "w">>
StrChat ==
    <<"c", "h", "a", "t">>

\* The header map of an upgrade request: each argument is the values sent
\* under one name, none when no such line was sent.
UpgradeHeader(origin, connection, upgrade, key1, key2, protocol) ==
    LET values == <<origin, connection, upgrade, key1, key2, protocol>>
        names == <<HeaderOrigin, HeaderConnection, HeaderUpgrade,
                   HeaderSecWebSocketKey1, HeaderSecWebSocketKey2,
                   HeaderSecWebSocketProtocol>>
    IN  [k \in {names[i] : i \in {j \in 1..6 : values[j] # <<>>}} |->
            values[CHOOSE i \in 1..6 : names[i] = k]]

UpgradeMethods == {StrGET, StrPOST}
Origins == {<<>>, <<StrOrigin>>, <<LongOrigin>>}
UpgradeConnections == {<<>>, <<<<"U", "p", "g", "r", "a", "d", "e">>>>, <<StrClose>>}
Upgrades == {<<<<"W", "e", "b", "S", "o", "c", "k", "e", "t">>>>, <<<<"t", "l", "s">>>>}
Protocols == {<<>>, <<StrChat>>}

\* Key headers: none, 12 with one space, 12 with two spaces among letters,
\* 7 with two spaces, 8 without space, and 4294967299 (2^32 + 3) with
\* three spaces.
Key1Values ==
    {<<>>,
     <<<<"1", "2", " ">>>>,
     <<<<"1", "x", " ", "2", " ">>>>,
     <<<<"7", " ", " ">>>>,
     <<<<"8">>>>,
     <<<<"4", "2", "9", "4", "9", "6", "7", "2", "9", "9", " ", " ", " ">>>>}
Key2Values ==
    {<<>>, <<<<"a", "6", " ">>>>, <<<<"7", " ", " ">>>>}

\* What the peer has sent behind the header block when the handler runs, in
\* prepare's buffer and on the socket, and whether it has closed its side:
\* nothing; seven bytes; eight bytes; eight bytes and a frame; eight bytes
\* and a frame that starts with 0x01.
PeerBytes ==
    {<<<<>>, <<>>, TRUE>>,
     <<<<Run(1, 3)>>, <<Run(2, 4)>>, TRUE>>,
     <<<<Run(1, 3)>>, <<Run(2, 5)>>, FALSE>>,
     <<<<>>, <<Run(3, 8)>>, FALSE>>,
     <<<<Run(3, 8), Run(0, 1), Run(66, 2), Run(255, 1)>>, <<>>, FALSE>>,
     <<<<Run(3, 8)>>, <<Run(1, 1), Run(66, 1), Run(255, 1)>>, TRUE>>}

\* The messages a handler sends: none of them holds 0xff.
Payloads ==
    {<<>>, <<Run(65, 1)>>, <<Run(0, 1), Run(65, 1)>>,
     <<Run(65, BufSize - 1)>>, <<Run(65, BufSize)>>}

\* c.prepare() on an upgrade request.
PrepareUpgrade ==
    /\ pc = "prepare"
    /\ cycles = 0
    /\ \E method \in UpgradeMethods, origin \in Origins,
          connection \in UpgradeConnections, upgrade \in Upgrades,
          key1 \in Key1Values, key2 \in Key2Values, protocol \in Protocols,
          peer \in PeerBytes :
         /\ req' = NewRequest(method, ProtocolVersion(1, 1),
                              UpgradeHeader(origin, connection, upgrade,
                                            key1, key2, protocol)).req
         /\ c' = PreparedConn(req')
         /\ ws' = WebSocketRequest(StrHost, StrPath, peer[1], peer[2], peer[3])
    /\ pc' = "handler"
    /\ cycles' = cycles + 1
    /\ UNCHANGED <<closes, broken, bw, wire, ops, last, bodyRead,
                   bodyWritten, respondArg, finished, form, outgoing, chat, parsing, input, rd, router>>

\* The handler's call of NewWebSocketConn returned r.
UpgradeStore(r) ==
    /\ c' = r.st.c
    /\ wire' = r.st.wire
    /\ broken' = r.st.broken
    /\ ws' = r.w
    /\ closes' = closes + r.closes
    /\ pc' = IF r.panic THEN "panic" ELSE pc

\* The handler calls NewWebSocketConn(req).
HandlerUpgrade ==
    /\ pc = "handler"
    /\ ws.state = "request"
    /\ \E budget \in 0..NetWrites(NewWebSocketConn(req, ws, Work(AllWrites)).st) :
         UpgradeStore(NewWebSocketConn(req, ws, Work(budget)))
    /\ UNCHANGED <<cycles, req, bw, ops, last, bodyRead, bodyWritten,
                   respondArg, finished, form, outgoing, chat, parsing, input, rd, router>>

\* The handler's call of ws.Send returned r.
SendStore(r) ==
    /\ wire' = r.st.wire
    /\ broken' = r.st.broken
    /\ ws' = r.w

\* The handler calls ws.Send(p).
HandlerSend ==
    /\ pc = "handler"
    /\ ws.state = "open"
    /\ ops < MaxFrames
    /\ \E p \in Payloads :
         \E budget \in 0..NetWrites(Send(Work(AllWrites), ws, p).st) :
           SendStore(Send(Work(budget), ws, p))
    /\ ops' = ops + 1
    /\ UNCHANGED <<pc, cycles, closes, c, req, bw, last, bodyRead,
                   bodyWritten, respondArg, finished, form, outgoing, chat, parsing, input, rd, router>>

\* The peer sends back the frames it has got since it last did.
PeerEcho ==
    /\ ws.state = "open"
    /\ ~ws.eof
    /\ ws.echoed < Len(wire)
    /\ ws' = [ws EXCEPT !.stream = @ \o SubSeq(wire, ws.echoed + 1, Len(wire)),
                        !.echoed = Len(wire)]
    /\ UNCHANGED <<connVars, form, outgoing, chat, parsing, input, rd, router>>

\* The peer has sent enough for Receive to return: a first byte that is no
\* 0x00, a terminator, more bytes than the buffer holds, or its last byte.
Readable(w) ==
    \/ w.eof
    \/ /\ SegsLen(w.stream) > 0
       /\ \/ RunsBytes(RunsTake(w.stream, 1))[1] # 0
          \/ RunsIndex(RunsDrop(w.stream, 1), 255, 0) >= 0
          \/ SegsLen(w.stream) > BufSize

\* The handler calls ws.Receive().
HandlerReceive ==
    /\ pc = "handler"
    /\ ws.state = "open"
    /\ ops < MaxFrames
    /\ Readable(ws)
    /\ ws' = Receive(ws)
    /\ ops' = ops + 1
    /\ UNCHANGED <<pc, cycles, closes, broken, c, req, bw, wire, last,
                   bodyRead, bodyWritten, respondArg, finished, form, outgoing, chat, parsing, input, rd,
                   router>>

\* The handler returns after its upgrade.
UpgradeReturn ==
    /\ ws.state \in {"open", "failed"}
    /\ HandlerReturn

InitWebSocket ==
    /\ InitConn
    /\ input = NoInput
    /\ rd = NoReader
    /\ router = NoRouter
    /\ ws = NoWebSocket
    /\ form = NoForm
    /\ outgoing = NoOut
    /\ chat = NoChat
    /\ parsing = NoParsing

NextWebSocket ==
    \/ PrepareUpgrade
    \/ HandlerUpgrade
    \/ UpgradeReturn

SpecWebSocket == InitWebSocket /\ [][NextWebSocket]_vars

\* An upgrade request that NewWebSocketConn accepts.
UpgradeRequest ==
    NewRequest(StrGET, ProtocolVersion(1, 1),
               UpgradeHeader(<<StrOrigin>>, <<HeaderUpgrade>>,
                             <<StrWebSocket>>, <<<<"1", "2", " ">>>>,
                             <<<<"a", "6", " ">>>>, <<>>)).req

\* NewWebSocketConn(UpgradeRequest) when the peer has sent peer and every
\* socket write succeeds.
UpgradedPeer(peer) ==
    NewWebSocketConn(
        UpgradeRequest,
        WebSocketRequest(StrHost, StrPath, peer[1], peer[2], peer[3]),
        [c |-> PreparedConn(UpgradeRequest), bw |-> NoWriter, wire |-> <<>>,
         broken |-> FALSE, budget |-> AllWrites])

\* A handler that has just upgraded its connection.
InitFrames ==
    /\ pc = "handler"
    /\ cycles = 1
    /\ closes = 0
    /\ req = UpgradeRequest
    /\ bw = NoWriter
    /\ ops = 0
    /\ last = NoResult
    /\ bodyRead = 0
    /\ bodyWritten = 0
    /\ respondArg = NoRespondArg
    /\ finished = NotFinished
    /\ input = NoInput
    /\ rd = NoReader
    /\ router = NoRouter
    /\ form = NoForm
    /\ outgoing = NoOut
    /\ chat = NoChat
    /\ parsing = NoParsing
    /\ \E peer \in PeerBytes :
         /\ UpgradedPeer(peer).w.state = "open"
         /\ c = UpgradedPeer(peer).st.c
         /\ wire = UpgradedPeer(peer).st.wire
         /\ broken = UpgradedPeer(peer).st.broken
         /\ ws = UpgradedPeer(peer).w

NextFrames ==
    \/ HandlerSend
    \/ PeerEcho
    \/ HandlerReceive
    \/ UpgradeReturn

SpecFrames == InitFrames /\ [][NextFrames]_vars

\* ------------------------------------------------------------------------
\* Properties of the WebSocket upgrade
\* ------------------------------------------------------------------------

\* NewWebSocketConn returned nil and an error.
UpgradeHasFailed ==
    ws.state = "failed"

RECURSIVE KeyNumber(_, _)
\* The number the decimal digits of s spell after the number n, as
\* hi * 65536 + lo with hi as large as the number needs.
KeyNumber(s, n) ==
    IF s = <<>> THEN n
    ELSE IF IndexOf(Digits, Head(s)) > 0
    THEN KeyNumber(
           Tail(s),
           [hi |-> n.hi * 10 + (n.lo * 10 + IndexOf(Digits, Head(s)) - 1) \div Half,
            lo |-> (n.lo * 10 + IndexOf(Digits, Head(s)) - 1) % Half])
    ELSE KeyNumber(Tail(s), n)

\* The number of spaces of s.
KeySpaces(s) ==
    Cardinality({i \in 1..Len(s) : s[i] = " "})

\* n mod d and n / d for the number n of the digits and d spaces.
KeyRemainder(n, d) ==
    ((n.hi % d) * Half + n.lo) % d

KeyQuotient(n, d) ==
    [hi |-> n.hi \div d, lo |-> ((n.hi % d) * Half + n.lo) \div d]

\* A key header value is rejected: d = 0 or n mod d # 0.
KeyRejected(s) ==
    \/ KeySpaces(s) = 0
    \/ KeyRemainder(KeyNumber(s, [hi |-> 0, lo |-> 0]), KeySpaces(s)) # 0

\* The four bytes of n / d, most significant first.
KeyBytes(s) ==
    LET q == KeyQuotient(KeyNumber(s, [hi |-> 0, lo |-> 0]), KeySpaces(s))
    IN  <<q.hi \div 256, q.hi % 256, q.lo \div 256, q.lo % 256>>

\* NewWebSocketConn has returned.
UpgradeDone ==
    ws.state \in {"open", "failed"}

\* The request passes the checks that come before the key headers.
UpgradeAsked ==
    /\ req.Method = StrGET
    /\ Get(req.Header, HeaderOrigin).found
    /\ ToLower(GetDef(req.Header, HeaderConnection, <<>>)) = StrUpgrade
    /\ ToLower(GetDef(req.Header, HeaderUpgrade, <<>>)) = StrWebSocket

\* The error of the first precondition the request violates, in the order
\* method, Origin, Connection, Upgrade, key 1, key 2, key3; "nil" when it
\* violates none.
FirstViolated ==
    IF req.Method # StrGET THEN "bad request method"
    ELSE IF ~Get(req.Header, HeaderOrigin).found THEN "origin missing"
    ELSE IF ToLower(GetDef(req.Header, HeaderConnection, <<>>)) # StrUpgrade
    THEN "connection header missing or wrong value"
    ELSE IF ToLower(GetDef(req.Header, HeaderUpgrade, <<>>)) # StrWebSocket
    THEN "upgrade header missing or wrong value"
    ELSE IF ~Get(req.Header, HeaderSecWebSocketKey1).found THEN "missing key"
    ELSE IF KeyRejected(Get(req.Header, HeaderSecWebSocketKey1).value)
    THEN "bad key"
    ELSE IF ~Get(req.Header, HeaderSecWebSocketKey2).found THEN "missing key"
    ELSE IF KeyRejected(Get(req.Header, HeaderSecWebSocketKey2).value)
    THEN "bad key"
    ELSE IF SegsLen(ws.buffered) + SegsLen(ws.socket) = 0 THEN "EOF"
    ELSE IF SegsLen(ws.buffered) + SegsLen(ws.socket) < 8
    THEN "ErrUnexpectedEOF"
    ELSE "nil"

\* C25: bytes of a handshake response are on the socket only if the request
\* violates no precondition, and an upgrade of a request that violates one
\* fails with the error of the first it violates.
C25_HandshakePreconditions ==
    UpgradeDone =>
        /\ wire # <<>> => FirstViolated = "nil"
        /\ FirstViolated # "nil" =>
               ws.state = "failed" /\ ws.err = FirstViolated

\* A request without Origin and without keys, sent with POST, was refused
\* for its method.
C25_Witness ==
    /\ UpgradeDone
    /\ req.Method = StrPOST
    /\ ~Get(req.Header, HeaderOrigin).found
    /\ ~Get(req.Header, HeaderSecWebSocketKey1).found
    /\ ws.err = "bad request method"

\* What md5 was computed from in the handshake response on the socket.
DigestOf ==
    wire[CHOOSE i \in 1..Len(wire) : wire[i].t = "digest"].text

\* C26: a request that gets as far as its key headers is refused as having
\* a bad key exactly when one of them has no space or digits that spell no
\* multiple of the number of its spaces, and otherwise the handshake
\* response is computed from the four big-endian bytes of n / d of each.
C26_KeyDerivation ==
    (/\ UpgradeDone
     /\ UpgradeAsked
     /\ Get(req.Header, HeaderSecWebSocketKey1).found
     /\ Get(req.Header, HeaderSecWebSocketKey2).found) =>
        /\ (ws.state = "failed" /\ ws.err = "bad key") <=>
               \/ KeyRejected(Get(req.Header, HeaderSecWebSocketKey1).value)
               \/ KeyRejected(Get(req.Header, HeaderSecWebSocketKey2).value)
        /\ ws.state = "open" =>
               /\ SubSeq(DigestOf, 1, 4) =
                      KeyBytes(Get(req.Header, HeaderSecWebSocketKey1).value)
               /\ SubSeq(DigestOf, 5, 8) =
                      KeyBytes(Get(req.Header, HeaderSecWebSocketKey2).value)

\* The keys "1x 2 " and "a6 " gave the bytes of 6 and of 6.
C26_Witness ==
    /\ ws.state = "open"
    /\ Get(req.Header, HeaderSecWebSocketKey1).value =
           <<"1", "x", " ", "2", " ">>
    /\ SubSeq(DigestOf, 1, 8) = <<0, 0, 0, 6, 0, 0, 0, 6>>

\* ------------------------------------------------------------------------
\* Properties of WebSocket frames
\* ------------------------------------------------------------------------

RECURSIVE RunsNorm(_)
\* The same bytes with no empty run and no two runs of one value in a row.
RunsNorm(runs) ==
    IF runs = <<>> THEN <<>>
    ELSE IF Head(runs).n = 0 THEN RunsNorm(Tail(runs))
    ELSE LET rest == RunsNorm(Tail(runs))
         IN  IF rest # <<>> /\ rest[1].status = Head(runs).status
             THEN <<Run(rest[1].status, Head(runs).n + rest[1].n)>> \o Tail(rest)
             ELSE <<Head(runs)>> \o rest

\* The frame of the message p.
FrameOf(p) ==
    <<Run(0, 1)>> \o p \o <<Run(255, 1)>>

\* A step in which Send returned nil, and one in which Receive returned.
SendStep ==
    Len(ws'.sent) = Len(ws.sent) + 1
ReceiveStep ==
    Len(ws'.received) = Len(ws.received) + 1

\* The unread bytes start with a frame: 0x00, and 0xff somewhere behind it.
AtFrame ==
    /\ SegsLen(ws.stream) > 0
    /\ RunsBytes(RunsTake(ws.stream, 1))[1] = 0
    /\ RunsIndex(RunsDrop(ws.stream, 1), 255, 0) >= 0

\* The payload of that frame.
FramePayload ==
    RunsTake(RunsDrop(ws.stream, 1), RunsIndex(RunsDrop(ws.stream, 1), 255, 0))

\* The first messages received are the first messages sent, in order.
OrderKept(w) ==
    \A i \in 1..Len(w.received) :
        i <= Len(w.sent) =>
            /\ w.received[i].err = "nil"
            /\ RunsNorm(w.received[i].p) = RunsNorm(w.sent[i])

\* The peer sent nothing of its own behind key3: it only echoes.
EchoOnly ==
    SegsLen(ws.buffered) + SegsLen(ws.socket) = 8

\* A Send that succeeds puts 0x00, the bytes of p and 0xff on the
\* socket; a Receive at a frame returns its payload and leaves what follows
\* the frame, and a Receive at a byte other than 0x00 returns the framing
\* error; what an echoing peer sends back is received as the messages
\* sent, in order.
FramingStep ==
    /\ SendStep =>
         RunsNorm(SubSeq(wire', Len(wire) + 1, Len(wire'))) =
             RunsNorm(FrameOf(ws'.sent[Len(ws'.sent)]))
    /\ (ReceiveStep /\ AtFrame) =>
         /\ ws'.received[Len(ws'.received)].err = "nil"
         /\ RunsNorm(ws'.received[Len(ws'.received)].p) =
                RunsNorm(FramePayload)
         /\ RunsNorm(ws'.stream) =
                RunsNorm(RunsDrop(ws.stream, SegsLen(FramePayload) + 2))
    /\ (ReceiveStep /\ SegsLen(ws.stream) > 0
            /\ RunsBytes(RunsTake(ws.stream, 1))[1] # 0) =>
         ws'.received[Len(ws'.received)].err = "unexpected framing"
    /\ EchoOnly => OrderKept(ws')

\* C27: every step keeps the framing (Send writes 0x00, p, 0xff; Receive
\* returns the payload of the frame it is at, or the framing error; an
\* echoing peer returns the messages in order).
C27_FramingRoundTrip ==
    [][FramingStep]_vars

\* Two messages, the empty one and one of two bytes, were sent, echoed and
\* received in that order.
C27_Witness ==
    /\ EchoOnly
    /\ Len(ws.sent) = 2
    /\ Len(ws.received) = 2
    /\ ws.sent[1] = <<>>
    /\ ws.sent[2] = <<Run(0, 1), Run(65, 1)>>
    /\ ws.received[1] = [p |-> <<>>, err |-> "nil"]
    /\ ws.received[2] = [p |-> <<Run(0, 1), Run(65, 1)>>, err |-> "nil"]

\* ------------------------------------------------------------------------
\* Request.ParseForm
\* ------------------------------------------------------------------------

\* Calls of ParseForm on one request are at most this many.
MaxCalls == 3

StrFormType ==
    <<"a", "p", "p", "l", "i", "c", "a", "t", "i", "o", "n", "/", "x", "-",
      "w", "w", "w", "-", "f", "o", "r", "m", "-", "u", "r", "l", "e", "n",
      "c", "o", "d", "e", "d">>
StrTextType ==
    <<"t", "e", "x", "t", "/", "p", "l", "a", "i", "n">>
StrPUT ==
    <<"P", "U", "T">>

\* The byte 0 of a buffer that make() has allocated.
ZeroByte == "0x00"

\* What parseUrlEncodedFormBytes returns: the map as it has become, and
\* the error.
FormParsed(m, err) ==
    [m |-> m, err |-> err]

RECURSIVE parseUrlEncodedFormFrom(_, _, _, _, _)
\* parseUrlEncodedFormBytes from the byte at i on: out is p[0:j], the bytes
\* decoded since the last '=' or '&'.
parseUrlEncodedFormFrom(p, i, out, key, m) ==
    IF i > Len(p)
    THEN FormParsed(IF key # <<>> THEN MapAppend(m, key, out) ELSE m, "nil")
    ELSE IF p[i] = "="
    THEN parseUrlEncodedFormFrom(p, i + 1, <<>>, out, m)
    ELSE IF p[i] = "&"
    THEN parseUrlEncodedFormFrom(p, i + 1, <<>>, <<>>, MapAppend(m, key, out))
    ELSE IF p[i] = "%"
    THEN IF i + 1 >= Len(p) \/ ~IsHex(p[i + 1]) \/ ~IsHex(p[i + 2])
         THEN FormParsed(m, "ErrBadFormat")
         ELSE parseUrlEncodedFormFrom(
                p, i + 3,
                Append(out, ByteOf(Unhex(p[i + 1]) * 16 + Unhex(p[i + 2]))),
                key, m)
    ELSE parseUrlEncodedFormFrom(p, i + 1, Append(out, p[i]), key, m)

\* parseUrlEncodedFormBytes
parseUrlEncodedFormBytes(p, m) ==
    parseUrlEncodedFormFrom(p, 1, <<>>, <<>>, m)

\* Request.BodyBytes: one Read into a buffer of ContentLength bytes, or
\* ioutil.ReadAll when the length is not positive. The body reader gives
\* rq.readErr, or rq.got bytes for one Read and, having no length to go
\* by, nothing for ReadAll.
BodyBytes(rq) ==
    IF rq.readErr # "nil"
    THEN [p |-> <<>>, err |-> rq.readErr, read |-> rq.read]
    ELSE IF rq.ContentLength > 0
    THEN [p |-> [i \in 1..rq.ContentLength |->
                    IF i <= Min2(rq.got, Len(rq.body) - rq.read)
                    THEN rq.body[rq.read + i] ELSE ZeroByte],
          err |-> "nil",
          read |-> rq.read + Min2(rq.got, Len(rq.body) - rq.read)]
    ELSE [p |-> <<>>, err |-> "nil", read |-> rq.read]

\* ParseForm after parseUrlEncodedFormBytes returned r.
FormBodyParsed(rq, r) ==
    [req |-> [rq EXCEPT !.Param = r.m,
                        !.formParseErr = IF r.err # "nil" THEN r.err ELSE @],
     err |-> r.err]

\* ParseForm after BodyBytes returned b.
FormBodyRead(rq, b) ==
    IF b.err # "nil"
    THEN [req |-> [rq EXCEPT !.formParseErr = b.err], err |-> b.err]
    ELSE FormBodyParsed([rq EXCEPT !.read = b.read],
                        parseUrlEncodedFormBytes(b.p, rq.Param))

\* ParseForm on a request it has not parsed.
ParseFormFirst(rq) ==
    IF \/ rq.ContentType # StrFormType
       \/ rq.ContentLength = 0
       \/ (rq.Method # StrPOST /\ rq.Method # StrPUT)
    THEN [req |-> [rq EXCEPT !.formParseErr = "errParsed"], err |-> "nil"]
    ELSE FormBodyRead([rq EXCEPT !.formParseErr = "errParsed"],
                      BodyBytes(rq))

\* A ParseForm that parses on every call.
ParseFormAgain(rq) ==
    ParseFormFirst(rq)

\* Request.ParseForm
ParseForm(rq) ==
    IF rq.formParseErr = "errParsed" THEN [req |-> rq, err |-> "nil"]
    ELSE IF rq.formParseErr # "nil" THEN [req |-> rq, err |-> rq.formParseErr]
    ELSE ParseFormFirst(rq)

\* The bodies a client sends: two pairs, an escaped byte, a pair and a key,
\* an escape cut short, an escape that is no number, no key.
FormBodies ==
    {<<"a", "=", "1", "&", "b", "=", "2">>,
     <<"a", "=", "%", "4", "1">>,
     <<"a", "=", "1", "&", "b">>,
     <<"a", "=", "1", "&", "b", "=", "%", "4">>,
     <<"a", "=", "%", "z", "z">>,
     <<"=", "x">>}

\* The parameters taken from the query string when the request was made.
FormParams ==
    {EmptyMap, MapAppend(EmptyMap, <<"a">>, <<"0">>)}

\* A request before its first ParseForm: body is what the client has sent
\* for the body, got the most one Read returns, readErr the error of a
\* Read, read the bytes taken from the body, returned what the calls of
\* ParseForm have returned.
FormRequest(method, contentType, contentLength, param, body, got, readErr) ==
    [Method |-> method, ContentType |-> contentType,
     ContentLength |-> contentLength, Param |-> param,
     formParseErr |-> "nil", body |-> body, got |-> got,
     readErr |-> readErr, read |-> 0, returned |-> <<>>]

FormRequests ==
    {FormRequest(method, contentType, contentLength, param, body, got, readErr) :
        method \in {StrGET, StrPOST, StrPUT},
        contentType \in {StrFormType, StrTextType},
        contentLength \in {-1, 0, 7},
        param \in FormParams,
        body \in FormBodies,
        got \in {3, 7},
        readErr \in {"nil", "EIO"}}

\* The handler's call of req.ParseForm() returned r.
FormStore(r) ==
    form' = [r.req EXCEPT !.returned = Append(@, r.err)]

\* The handler calls req.ParseForm().
HandlerParseForm ==
    /\ Len(form.returned) < MaxCalls
    /\ FormStore(ParseForm(form))
    /\ UNCHANGED <<connVars, input, outgoing, chat, parsing, rd, router, ws>>

InitForm ==
    /\ InitConn
    /\ input = NoInput
    /\ rd = NoReader
    /\ router = NoRouter
    /\ ws = NoWebSocket
    /\ outgoing = NoOut
    /\ chat = NoChat
    /\ parsing = NoParsing
    /\ form \in FormRequests

NextForm ==
    HandlerParseForm

SpecForm == InitForm /\ [][NextForm]_vars

\* C28: a call of ParseForm after the first leaves the parameter map as it
\* was, reads nothing from the body and returns what the first call
\* returned.
C28_ParseFormIdempotent ==
    [][Len(form.returned) >= 1 =>
          /\ form'.Param = form.Param
          /\ form'.read = form.read
          /\ form'.returned = Append(form.returned, form.returned[1])]_vars

\* ParseForm was called twice on a body whose second pair has a bad
\* escape: both calls returned the error, and the first pair was added to
\* the parameter of the query once.
C28_Witness ==
    /\ form.returned = <<"ErrBadFormat", "ErrBadFormat">>
    /\ form.body = <<"a", "=", "1", "&", "b", "=", "%", "4">>
    /\ form.Param = MapAppend(MapAppend(EmptyMap, <<"a">>, <<"0">>),
                              <<"a">>, <<"1">>)
    /\ form.read = 7

\* ------------------------------------------------------------------------
\* Framing selection and the close decision
\* ------------------------------------------------------------------------

\* The status and the header map of the response of this cycle: what the
\* handler passed to Respond, or what finish passes for it.
RespondedStatus ==
    IF respondArg.called THEN respondArg.status ELSE StatusOK

RespondedHeader ==
    IF respondArg.called THEN respondArg.header
    ELSE MapAppend(EmptyMap, HeaderContentType, StrDefaultContentType)

\* The keys of header map m that a client reads as name.
NamedKeys(m, name) ==
    {k \in DOMAIN m : HeaderName(k) = name /\ m[k] # <<>>}

\* The caller gave an explicit Content-Length.
LengthGiven ==
    NamedKeys(RespondedHeader, HeaderContentLength) # {}

\* close-after-response as it stands when Respond decides the framing:
\* what prepare decided, or request body bytes still unread.
CloseAtRespond ==
    \/ PreparedConn(req).closeAfterResponse
    \/ bodyRead < DeclaredBody

\* The framing of written head h is identity with the caller's length.
IdentityWithLength(h) ==
    /\ ~c.chunked
    /\ WrittenKeys(h, HeaderTransferEncoding) = {}
    /\ \A k \in NamedKeys(RespondedHeader, HeaderContentLength) :
          GetAll(h.header, k) = RespondedHeader[k]

\* Written head h advertises chunked framing, and the connection chunks.
ChunkedFraming(h) ==
    /\ c.chunked
    /\ GetAll(h.header, HeaderTransferEncoding) = <<StrChunked>>

\* Written head h has no Content-Length and the connection does not chunk.
NoFraming(h) ==
    /\ ~c.chunked
    /\ WrittenKeys(h, HeaderContentLength) = {}
    /\ GetAll(h.header, HeaderTransferEncoding) # <<StrChunked>>

\* C29: framing selection in Respond follows the priority order. For the
\* head Respond wrote: status 304 gives no Content-Length and no chunking;
\* otherwise an explicit Content-Length gives identity framing with that
\* length; otherwise a request below HTTP/1.1 gives identity framing and
\* the socket is closed after the response; otherwise the response is
\* chunked, unless close-after-response was set, which overrides chunking.
\* So a chunked response is never sent for a request below HTTP/1.1 nor on
\* a connection that is closed after the response.
C29_FramingPriority ==
    \A h \in WrittenHeads :
       /\ RespondedStatus = StatusNotModified => NoFraming(h)
       /\ (RespondedStatus # StatusNotModified /\ LengthGiven)
            => IdentityWithLength(h)
       /\ (RespondedStatus # StatusNotModified /\ ~LengthGiven
            /\ req.ProtocolVersion < ProtocolVersion(1, 1))
            => /\ ~c.chunked
               /\ CycleDone => pc = "closed"
       /\ (RespondedStatus # StatusNotModified /\ ~LengthGiven
            /\ req.ProtocolVersion >= ProtocolVersion(1, 1))
            => IF CloseAtRespond THEN ~c.chunked ELSE ChunkedFraming(h)
       /\ c.chunked => /\ req.ProtocolVersion >= ProtocolVersion(1, 1)
                       /\ ~CloseAtRespond
                       /\ CycleDone => pc = "served"

\* Respond(304, {"content-length": "2"}) on an HTTP/1.1 request: the head
\* on the socket is a 304 that carries the caller's length.
C29_Witness ==
    /\ respondArg.called
    /\ respondArg.status = StatusNotModified
    /\ req.ProtocolVersion = ProtocolVersion(1, 1)
    /\ ~broken
    /\ Cardinality(Heads(wire)) = 1
    /\ GetAll(WireHead.header, LowerContentLength) = << <<"2">> >>
    /\ WrittenKeys(WireHead, HeaderContentLength) # {}

\* Written head h advertises Connection: close.
Advertised(h) ==
    GetAll(h.header, HeaderConnection) = <<StrClose>>

\* The response with written head h is not chunked.
NotChunked(h) ==
    /\ ~c.chunked
    /\ GetAll(h.header, HeaderTransferEncoding) # <<StrChunked>>

\* close-after-response is set when Respond returns: by prepare from the
\* request headers, by unread request body bytes, or for a request below
\* HTTP/1.1 answered without a length.
CloseByRespond ==
    \/ CloseAtRespond
    \/ /\ RespondedStatus # StatusNotModified
       /\ ~Get(RespondedHeader, HeaderContentLength).found
       /\ req.ProtocolVersion < ProtocolVersion(1, 1)

\* serveConnection has closed the socket after the response of this cycle.
ClosedAfterResponse ==
    CycleDone /\ pc = "closed"

UnadvertisedClose ==
    /\ ClosedAfterResponse
    /\ ~broken
    /\ req.ProtocolVersion = ProtocolVersion(1, 1)
    /\ RequestConnection # StrClose
    /\ bodyRead = DeclaredBody
    /\ DeclaredLength.value = <<"4", "0">>
    /\ bodyWritten = 0
    /\ Cardinality(Heads(wire)) = 1
    /\ ~Advertised(WireHead)

\* ------------------------------------------------------------------------
\* The body of a chunked response
\* ------------------------------------------------------------------------

\* Calls the handler makes on the body writer of one response.
MaxBodyCalls == 3

\* A body that does not fit the buffer of the body writer by this much.
BodyExcess == 904

\* The slices a handler passes to one Write of the body, by length: short
\* ones, one that fills the buffer, one that is larger.
BodyLens == {1, BufSize - 1, BufSize, BufSize + BodyExcess}

\* An HTTP/1.1 GET without Connection and without a body.
ChunkedRequest ==
    NewRequest(StrGET, ProtocolVersion(1, 1), RequestHeader(<<>>, <<>>, <<>>)).req

\* The connection after prepare and the handler's Respond(200) without a
\* Content-Length, on a socket that works.
ChunkedResponding ==
    ResponderRespond([c |-> PreparedConn(ChunkedRequest), bw |-> NoWriter,
                      wire |-> <<>>, broken |-> FALSE, budget |-> AllWrites],
                     ChunkedRequest, StatusOK, EmptyMap).st

InitBody ==
    /\ pc = "handler"
    /\ cycles = 1
    /\ closes = 0
    /\ broken = FALSE
    /\ req = ChunkedRequest
    /\ c = ChunkedResponding.c
    /\ bw = ChunkedResponding.bw
    /\ wire = ChunkedResponding.wire
    /\ ops = 1
    /\ last = Result("Respond", "bw", "nil", 0, "nil")
    /\ bodyRead = 0
    /\ bodyWritten = 0
    /\ respondArg = [called |-> TRUE, status |-> StatusOK, header |-> EmptyMap]
    /\ finished = NotFinished
    /\ input = NoInput
    /\ rd = NoReader
    /\ router = NoRouter
    /\ ws = NoWebSocket
    /\ form = NoForm
    /\ outgoing = NoOut
    /\ chat = NoChat
    /\ parsing = NoParsing

\* The handler writes a slice of len bytes to the body writer.
BodyWrite ==
    /\ pc = "handler"
    /\ ops < 1 + MaxBodyCalls
    /\ c.bw = "bw"
    /\ \E len \in BodyLens :
         /\ \E budget \in
                0..NetWrites(BufWrite(Work(AllWrites), Seg("data", len), 0).st) :
              BodyWritten(BufWrite(Work(budget), Seg("data", len), 0))
         /\ outgoing' = Append(outgoing, len)
    /\ ops' = ops + 1
    /\ UNCHANGED <<form, chat, parsing, input, rd, router, ws>>
    /\ UNCHANGED <<pc, cycles, closes, req, bodyRead, respondArg, finished>>

\* The handler flushes the body writer.
BodyFlush ==
    /\ pc = "handler"
    /\ ops < 1 + MaxBodyCalls
    /\ c.bw = "bw"
    /\ \E budget \in 0..NetWrites(BufFlush(Work(AllWrites))) :
         BodyFlushed(BufFlush(Work(budget)))
    /\ ops' = ops + 1
    /\ UNCHANGED <<form, outgoing, chat, parsing, input, rd, router, ws>>
    /\ UNCHANGED <<pc, cycles, closes, req, bodyRead, bodyWritten,
                   respondArg, finished>>

NextBody ==
    \/ BodyWrite
    \/ BodyFlush
    \/ HandlerReturn

SpecBody == InitBody /\ [][NextBody]_vars

RECURSIVE SumSeq(_)
\* The sum of the numbers of a sequence.
SumSeq(q) ==
    IF q = <<>> THEN 0 ELSE Head(q) + SumSeq(Tail(q))

\* The bytes of the response on the socket behind the header block.
WireBody ==
    SelectSeq(wire, LAMBDA g : g.t # "head")

RECURSIVE Chunks(_)
\* segs is a sequence of chunks: each a size line that gives the length
\* of the payload, CRLF, a payload that is not empty, CRLF.
Chunks(segs) ==
    IF segs = <<>> THEN TRUE
    ELSE /\ Len(segs) >= 3
         /\ segs[1].t = "size"
         /\ segs[2].t = "data"
         /\ segs[2].n > 0
         /\ segs[1].n = segs[2].n
         /\ segs[3].t = "crlf"
         /\ Chunks(SubSeq(segs, 4, Len(segs)))

\* The payload bytes among segs.
Payload(segs) ==
    SegsLen(SelectSeq(segs, LAMBDA g : g.t = "data"))

\* The chunks on the socket, without the terminal chunk finish wrote.
WireChunks ==
    SelectSeq(WireBody, LAMBDA g : g.t # "last")

\* C31: chunked body integrity. Past finish of a chunked response on a
\* socket whose writes all succeeded, the bytes behind the header block
\* are chunks of the form hex length CRLF payload CRLF with payloads that
\* are not empty, and the payloads together are the bytes the handler
\* wrote to the body: none lost, none twice, for bodies smaller and larger
\* than the 4096 bytes of the write buffer.
C31_ChunkedBodyIntegrity ==
    (CycleDone /\ ~broken /\ c.chunked)
    => /\ Chunks(WireChunks)
       /\ Payload(wire) = SumSeq(outgoing)

\* One Write of 5000 bytes to the body of a chunked response: the cycle is
\* over, every socket write succeeded, and 4096 payload bytes are on the
\* socket.
C31_Witness ==
    /\ CycleDone
    /\ ~broken
    /\ c.chunked
    /\ outgoing = <<BufSize + BodyExcess>>
    /\ Payload(wire) = BufSize
    /\ Chunks(WireChunks)
    /\ pc = "served"

\* chunkedWriter.Write(p) for the bytes p the body writer holds, on a
\* socket on which budget more writes succeed: what the next Flush of the
\* body writer calls.
ChunkedWriteOfBuffer(budget) ==
    ChunkedWrite(Work(budget), bw.buf)

\* The body writer wraps the chunked writer and holds bytes.
ChunkedBuffered ==
    /\ pc = "handler"
    /\ bw.kind = "chunked"
    /\ bw.buf # <<>>
    /\ c.responseErr = "nil"

\* The error chunkedWriter.Write returned is recorded and the same.
ErrorRecorded(r) ==
    r.err # "nil" => r.st.c.responseErr = r.err

\* C32: a chunked write of a slice p that is not empty, when its three
\* socket writes succeed, reports len(p) payload bytes written; when one of
\* them fails, the error is returned and is the connection's response
\* error.
C32_ChunkedWriteCount ==
    ChunkedBuffered =>
        \A budget \in 0..AllWrites :
           /\ ChunkedWriteOfBuffer(budget).err = "nil"
                => ChunkedWriteOfBuffer(budget).n = SegsLen(bw.buf)
           /\ ErrorRecorded(ChunkedWriteOfBuffer(budget))

\* The handler wrote one byte and flushed the body writer: the chunk is on
\* the socket, whole, every socket write succeeded, and the Flush reports
\* a short write.
C32_Witness ==
    /\ pc = "handler"
    /\ ~broken
    /\ c.responseErr = "nil"
    /\ outgoing = <<1>>
    /\ last.op = "Flush"
    /\ last.err = "ErrShortWrite"
    /\ Chunks(WireBody)
    /\ Payload(wire) = 1

\* ------------------------------------------------------------------------
\* The request body reader
\* ------------------------------------------------------------------------

\* Requests with and without a declared body, of methods for which a
\* missing Content-Length means no body (GET) and unknown (POST).
BodyMethods == {StrGET, StrPOST}

PrepareBody ==
    PrepareFrom(BodyMethods, Versions, {<<>>}, ContentLengthOpts, ExpectOpts)

NextRead ==
    \/ PrepareBody
    \/ HandlerRead
    \/ HandlerRespond
    \/ HandlerHijack
    \/ HandlerReturn
    \/ NextRequest

SpecRead == Init /\ [][NextRead]_vars

\* A Read of the body has failed, or Respond or Hijack has ended reading.
ReadingOver ==
    c.requestErr # "nil"

\* C33: the body reader is bounded by the content length. In every state
\* requestAvail is not negative and the bytes the reads of a cycle have
\* returned, with those still to come, are max(ContentLength, 0): the
\* reader stays off the bytes behind the body. A read that returns an
\* error ends reading: every later read returns an error, returns no byte
\* and takes none off the stream.
C33_BoundedBodyReader ==
    /\ [](c.requestAvail >= 0)
    /\ [](bodyRead <= DeclaredBody)
    /\ [](c.req # "nil" => bodyRead + c.requestAvail = DeclaredBody)
    /\ [][CallStep("Read") =>
            /\ last'.err # "nil" => c'.requestErr # "nil"
            /\ ReadingOver => /\ last'.err # "nil"
                              /\ last'.n = 0
                              /\ bodyRead' = bodyRead
                              /\ c'.requestAvail = c.requestAvail]_vars

\* A POST with Content-Length 2: the handler asked for 2 bytes and got 1,
\* asked for 2 again and got the 1 that was left, and the third Read is
\* the end of the body.
C33_Witness ==
    /\ pc = "handler"
    /\ req.Method = StrPOST
    /\ req.ContentLength = 2
    /\ ops = 3
    /\ bodyRead = 2
    /\ c.requestAvail = 0
    /\ last.op = "Read"
    /\ last.n = 0
    /\ last.err = "EOF"

\* ------------------------------------------------------------------------
\* The content length of a request without Content-Length
\* ------------------------------------------------------------------------

\* The request in the handler's hands came without a Content-Length.
NoLengthSent ==
    /\ pc = "handler"
    /\ req # NoRequest
    /\ ~Get(req.Header, HeaderContentLength).found

\* ContentLength as the method in Request.Method decides it: unknown
\* unless the method is GET or HEAD.
LengthByMethod ==
    IF req.Method \in {StrGET, StrHEAD} THEN 0 ELSE -1

\* C34: a request without a Content-Length header has the negative
\* ContentLength exactly when its method, upper-cased as Request.Method
\* shows it, is neither GET nor HEAD; so get and head in any letter case
\* give ContentLength 0, the body bound and the keep-alive decision of
\* GET and HEAD.
C34_LengthByMethod ==
    NoLengthSent =>
        /\ req.ContentLength = LengthByMethod
        /\ c.requestAvail = 0
        /\ c.closeAfterResponse =
             PrepareCloseAfterResponse(req.ProtocolVersion, LengthByMethod,
                                       req.Header)

\* The client sent the request line get / HTTP/1.1 and no Content-Length:
\* the handler sees Method GET with ContentLength -1.
C34_Witness ==
    /\ NoLengthSent
    /\ Head(input) = ToLower(StrGET) \o <<" ", "/", " ">> \o ProtoHTTP11 \o StrCRLF
    /\ req.Method = StrGET
    /\ req.ContentLength = -1

\* ------------------------------------------------------------------------
\* The limits of parseHeader
\* ------------------------------------------------------------------------

\* n bytes ch.
Repeat(ch, n) ==
    [i \in 1..n |-> ch]

\* A header line with a value of k bytes, and a continuation line with a
\* text of m bytes, ended by the terminator end.
ValueLine(k, end) ==
    <<"X", ":">> \o Repeat("a", k) \o end

ContLine(m, end) ==
    <<" ">> \o Repeat("b", m) \o end

\* n short header lines.
Filler(n) ==
    [i \in 1..n |-> HeaderCookie \o <<":", "y">> \o StrLF]

\* The length of a value that continuation lines extend.
LongValue == 4000

\* Header blocks around the limits: n short header lines, and then a line
\* with a short value, with a value that makes the line as long as the
\* reader's buffer takes or longer, or with a long value that one or two
\* continuation lines bring up to maxValueSize and beyond.
FillerCounts ==
    {0, maxHeaderCount - 2, maxHeaderCount - 1, maxHeaderCount}

LimitTails ==
    UNION { { <<ValueLine(1, end)>>,
              <<ValueLine(BufSize - 2 - Len(end), end)>>,
              <<ValueLine(BufSize - 1 - Len(end), end)>>,
              <<ValueLine(maxLineSize - 1, end)>>,
              <<ValueLine(LongValue, end),
                ContLine(maxValueSize - LongValue - 2, end)>>,
              <<ValueLine(LongValue, end),
                ContLine(maxValueSize - LongValue - 1, end)>>,
              <<ValueLine(LongValue, end),
                ContLine(maxValueSize - LongValue, end)>>,
              <<ValueLine(LongValue, end), ContLine(1, end),
                ContLine(maxValueSize - LongValue - 3, end)>>,
              <<ValueLine(LongValue, end), ContLine(1, end),
                ContLine(maxValueSize - LongValue - 2, end)>> }
            : end \in {StrCRLF, StrLF} }

LimitInputs ==
    { <<StrGET \o <<" ", "/", " ">> \o ProtoHTTP11 \o StrCRLF>> \o Filler(n)
        \o tail \o <<StrCRLF>> :
      n \in FillerCounts, tail \in LimitTails }

\* parseHeader between two lines: what it has read so far for the request
\* line r, and the lines not yet read.
Reading(status, r, header, lastKey, headerCount, lines) ==
    [status |-> status, method |-> r.method, url |-> r.url,
     version |-> r.version, header |-> header, lastKey |-> lastKey,
     headerCount |-> headerCount, lines |-> lines]

\* The key of header line p.
LineKey(p) ==
    HeaderName(SubSeq(p, 1, skipBytes(p, IsTokenByte)))

\* One turn of the loop of parseHeader on line, which gave r for the line
\* followed by the end of the block: the empty line ends the loop, an
\* error returns no header map, and any other line leaves its header, and
\* a header line its key and its count, for the next turn.
LineRead(ps, line, r) ==
    IF r.status # "ok"
    THEN Reading(r.status, ps, EmptyMap, <<>>, 0, Tail(ps.lines))
    ELSE IF StripTerminator(line) = <<>>
    THEN Reading("ok", ps, r.header, ps.lastKey, ps.headerCount, Tail(ps.lines))
    ELSE IF IsSpaceByte(line[1])
    THEN Reading("reading", ps, r.header, ps.lastKey, ps.headerCount,
                 Tail(ps.lines))
    ELSE Reading("reading", ps, r.header, LineKey(StripTerminator(line)),
                 ps.headerCount + 1, Tail(ps.lines))

\* parseHeader, one turn of its loop from ps.
LineStep(ps) ==
    IF ps.lines = <<>>
    THEN Reading("err", ps, EmptyMap, <<>>, 0, <<>>)
    ELSE LineRead(ps, Head(ps.lines),
                  parseHeaderFrom(<<Head(ps.lines), StrLF>>, ps.header,
                                  ps.lastKey, ps.headerCount))

InitLimits ==
    /\ InitConn
    /\ input \in LimitInputs
    /\ rd = NoReader
    /\ router = NoRouter
    /\ ws = NoWebSocket
    /\ form = NoForm
    /\ outgoing = NoOut
    /\ chat = NoChat
    /\ parsing = NoParsing

\* prepare: parseRequestLine.
ReadRequestLine ==
    /\ pc = "prepare"
    /\ parsing.status = "none"
    /\ parsing' = Reading(IF parseRequestLine(input).status = "ok"
                          THEN "reading" ELSE parseRequestLine(input).status,
                          parseRequestLine(input), EmptyMap, <<>>, 0,
                          parseRequestLine(input).rest)
    /\ UNCHANGED <<connVars, form, outgoing, chat, input, rd, router, ws>>

\* prepare: parseHeader reads one line.
ReadHeaderLine ==
    /\ pc = "prepare"
    /\ parsing.status = "reading"
    /\ parsing' = LineStep(parsing)
    /\ UNCHANGED <<connVars, form, outgoing, chat, input, rd, router, ws>>

\* prepare once parseHeader has returned.
PrepareParsed ==
    /\ pc = "prepare"
    /\ parsing.status \in {"ok", "err", "panic"}
    /\ PreparedInput(Parsed(parsing.status, parsing.method, parsing.url,
                            parsing.version, parsing.header, parsing.lines),
                     NewRequest(parsing.method, parsing.version, parsing.header))
    /\ UNCHANGED <<broken, bw, wire, ops, last, bodyRead, bodyWritten,
                   respondArg, finished, form, outgoing, chat, parsing, input, rd,
                   router, ws>>

NextLimits ==
    \/ ReadRequestLine
    \/ ReadHeaderLine
    \/ PrepareParsed
    \/ HandlerReturn

SpecLimits == InitLimits /\ [][NextLimits]_vars

\* The position in input of the line parseHeader reads next.
NextLine ==
    Len(input) - Len(parsing.lines) + 1

\* The header lines (continuation lines apart) among lines 2..j of input.
HeadersSent(j) ==
    Cardinality({i \in 2..j : Trimmed(input[i]) # <<>>
                                /\ ~IsContinuation(input[i])})

\* The header line that line j of input continues.
ContinuedLine(j) ==
    CHOOSE i \in 2..j : /\ ~IsContinuation(input[i])
                        /\ \A k \in (i + 1)..j : IsContinuation(input[k])

RECURSIVE ContinuedLen(_, _)
\* The length of the value sent on header line i with the continuation
\* lines that follow it, up to line j.
ContinuedLen(i, j) ==
    IF i = j
    THEN Len(SentValue(StripTerminator(input[i])))
    ELSE ContinuedLen(i, j - 1)
         + (IF Trimmed(input[j]) = <<>> THEN 0 ELSE 1 + Len(Trimmed(input[j])))

\* Line j of input exceeds a limit: it is longer than maxLineSize, it
\* brings the value it continues beyond maxValueSize, or it is header line
\* number maxHeaderCount + 1.
ExceededAt(j) ==
    \/ Len(StripTerminator(input[j])) > maxLineSize
    \/ /\ IsContinuation(input[j])
       /\ Trimmed(input[j]) # <<>>
       /\ ContinuedLen(ContinuedLine(j), j) > maxValueSize
    \/ /\ ~IsContinuation(input[j])
       /\ HeadersSent(j) > maxHeaderCount

\* parseHeader has returned an error.
ParseFailed ==
    parsing.status = "err"

\* Every value of header map m has at most maxValueSize bytes.
ValuesBounded(m) ==
    \A k \in DOMAIN m : \A i \in 1..Len(m[k]) : Len(m[k][i]) <= maxValueSize

\* C35: header parsing is bounded. A header block that was parsed came
\* with at most 256 header lines, and no value of the header map is
\* longer than 4096 bytes at any time, values built by continuation lines
\* included. The line that exceeds the line length, the value length or
\* the header count makes parseHeader return an error at once, with no
\* header map; after the error no further line is read, no request is
\* made and the socket is closed.
C35_BoundedHeaders ==
    /\ [](parsing.status \in {"reading", "ok"} =>
            /\ parsing.headerCount <= maxHeaderCount
            /\ parsing.headerCount = HeadersSent(NextLine - 1)
            /\ ValuesBounded(parsing.header))
    /\ [](ParseFailed => (parsing.header = EmptyMap /\ req = NoRequest))
    /\ []((ParseFailed /\ pc # "prepare") => (pc = "closed" /\ closes = 1))
    /\ [][/\ (parsing.status = "reading" /\ parsing.lines # <<>>
              /\ ExceededAt(NextLine)) => ParseFailed'
          /\ ParseFailed => parsing' = parsing]_vars

\* 256 header lines, the last with a value of 4000 bytes that a
\* continuation line brings to 4096: parsed, with the value stored whole.
C35_Witness ==
    /\ pc = "handler"
    /\ parsing.status = "ok"
    /\ parsing.headerCount = maxHeaderCount
    /\ Len(req.Header[<<"X">>][1]) = maxValueSize
    /\ Len(req.Header[HeaderCookie]) = maxHeaderCount - 1

\* Header line 257 was refused: the lines behind it are unread, prepare
\* has failed and the socket is closed.
TooManyHeadersRefused ==
    /\ ParseFailed
    /\ HeadersSent(NextLine - 1) = maxHeaderCount + 1
    /\ Len(parsing.lines) = 1
    /\ pc = "closed"
    /\ req = NoRequest

\* A continuation line that would bring the value to 4097 bytes was
\* refused.
LongValueRefused ==
    /\ ParseFailed
    /\ IsContinuation(input[NextLine - 1])
    /\ ContinuedLen(ContinuedLine(NextLine - 1), NextLine - 1) = maxValueSize + 1
    /\ pc = "closed"

\* ------------------------------------------------------------------------
\* Response splitting
\* ------------------------------------------------------------------------

\* A header value and a header key with a line break in them.
BrokenValue ==
    <<"a", "\r", "\n", "b", "\n">>
BrokenKey ==
    <<"X", "\r", "\n", "Y">>

\* Header maps of handlers that pass on text they were given.
SplitHeaders ==
    { EmptyMap,
      MapSet(EmptyMap, HeaderContentType, BrokenValue),
      MapAppend(MapSet(EmptyMap, HeaderSetCookie, BrokenValue),
                HeaderSetCookie, StrGzip),
      MapSet(EmptyMap, HeaderConnection, StrKeepAlive),
      MapSet(EmptyMap, HeaderTransferEncoding, StrGzip),
      MapSet(EmptyMap, HeaderContentLength, <<"2">>),
      MapSet(EmptyMap, BrokenKey, StrGzip) }

HandlerRespondSplit ==
    RespondFrom(Statuses, SplitHeaders)

NextSplit ==
    \/ Prepare
    \/ HandlerRespondSplit
    \/ HandlerReturn
    \/ NextRequest

SpecSplit == Init /\ [][NextSplit]_vars

\* The line feeds in s.
LineFeeds(s) ==
    Cardinality({i \in 1..Len(s) : s[i] = "\n"})

\* The line breaks in s.
LineBreaks(s) ==
    Cardinality({i \in 1..Len(s) : s[i] \in {"\r", "\n"}})

RECURSIVE ValuesIn(_)
\* The number of values in header map m.
ValuesIn(m) ==
    IF DOMAIN m = {} THEN 0
    ELSE LET k == CHOOSE k \in DOMAIN m : TRUE
         IN  Len(m[k]) + ValuesIn(MapDelete(m, k))

RECURSIVE KeyLines(_, _)
\* The lines a reader finds in the bytes "key: value CRLF" written for
\* the values of one key.
KeyLines(key, values) ==
    IF values = <<>> THEN 0
    ELSE LineFeeds(key) + LineFeeds(Head(values)) + 1
         + KeyLines(key, Tail(values))

RECURSIVE WireLines(_)
\* The header lines a reader finds in the header block written for m.
WireLines(m) ==
    IF DOMAIN m = {} THEN 0
    ELSE LET k == CHOOSE k \in DOMAIN m : TRUE
         IN  KeyLines(k, m[k]) + WireLines(MapDelete(m, k))

\* The header lines the connection adds of its own at the end of Respond.
LinesAdded(cn) ==
    (IF cn.closeAfterResponse THEN 1 ELSE 0) + (IF cn.chunked THEN 1 ELSE 0)

\* written is value, each CR and LF replaced by a space.
Cleaned(value, written) ==
    /\ Len(written) = Len(value)
    /\ \A j \in 1..Len(value) :
         written[j] = IF value[j] \in {"\r", "\n"} THEN " " ELSE value[j]

\* The keys of the caller whose values Respond writes as passed.
PassedOn(h, passed) ==
    {k \in DOMAIN passed \cap DOMAIN h.header :
        k \notin {HeaderConnection, HeaderTransferEncoding}}

\* No value of written head h has a line break, and the values of the
\* caller are written cleaned.
ValuesClean(h, passed) ==
    /\ \A k \in DOMAIN h.header : \A i \in 1..Len(h.header[k]) :
         LineBreaks(h.header[k][i]) = 0
    /\ \A k \in PassedOn(h, passed) :
         /\ Len(h.header[k]) = Len(passed[k])
         /\ \A i \in 1..Len(passed[k]) : Cleaned(passed[k][i], h.header[k][i])

\* This step is a call of Respond that wrote a head.
RespondStep ==
    /\ CallStep("Respond")
    /\ last'.ret = "bw"

\* C36: response splitting is prevented. No header value written by
\* Respond contains a carriage return or a line feed (each is replaced by
\* a space, the other bytes and the length unchanged), so the header block
\* on the wire has as many lines as values were passed to Respond, plus
\* the lines the connection adds itself.
C36_NoSplitting ==
    [][RespondStep =>
         \A h \in WrittenHeads' :
            /\ ValuesClean(h, respondArg'.header)
            /\ WireLines(h.header)
                 = ValuesIn(respondArg'.header) + LinesAdded(c')]_vars

\* A value with CR and LF in it was written, as one line.
C36_Witness ==
    /\ respondArg.called
    /\ HeaderContentType \in DOMAIN respondArg.header
    /\ respondArg.header[HeaderContentType] = <<BrokenValue>>
    /\ \E h \in WrittenHeads :
         /\ h.header[HeaderContentType] = <<<<"a", " ", " ", "b", " ">>>>
         /\ WireLines(h.header) = 1 + LinesAdded(c)

\* The values of every written head are clean.
SplitValuesClean ==
    [][RespondStep =>
         \A h \in WrittenHeads' : ValuesClean(h, respondArg'.header)]_vars

\* A key without a line break gives one line for each value written.
SplitKeysClean ==
    [][RespondStep =>
         \A h \in WrittenHeads' :
            (\A k \in DOMAIN h.header : LineBreaks(k) = 0)
               => WireLines(h.header) = ValuesIn(h.header)]_vars

\* A key with a line break was written as it is: two lines for one value.
SplitByKey ==
    /\ respondArg.called
    /\ \E h \in WrittenHeads :
         /\ BrokenKey \in DOMAIN h.header
         /\ KeyLines(BrokenKey, h.header[BrokenKey]) = 2

\* ------------------------------------------------------------------------
\* Router.find on every path
\* ------------------------------------------------------------------------

\* What find returns for the request that was dispatched.
FoundForRequest ==
    find(router.routes, router.path, router.method)

\* C37: Router.find is total. For every path, the empty path included,
\* every method and every route table built by successful calls of
\* Register, the route / included, find returns a handler (a registered
\* handler, the slash redirect, or the error 400, 404 or 405) and does not
\* end in a runtime error.
C37_FindTotal ==
    Dispatched => ~FoundForRequest.panic

\* C37: the route / is registered first and the request has the empty
\* path: find reads the last byte of the path and ends in a runtime error.
C37_Witness ==
    /\ Dispatched
    /\ router.routes # <<>>
    /\ router.routes[1].pattern = <<"/">>
    /\ router.path = <<>>
    /\ FoundForRequest.panic

\* On a path that is not empty find returns a handler.
FindTotalOnPaths ==
    (Dispatched /\ router.path # <<>>) => ~FoundForRequest.panic

\* ------------------------------------------------------------------------
\* Calls after Hijack
\* ------------------------------------------------------------------------

\* This step is a call of Hijack or Respond on a hijacked connection.
CallAfterHijack ==
    /\ c.hijacked
    /\ (CallStep("Hijack") \/ CallStep("Respond"))

\* C38: Hijack is irreversible and one-shot. After a successful Hijack
\* every later call of Hijack or Respond on the connection fails cleanly,
\* Hijack with an error and Respond with a nil writer, hands out the socket
\* to no second owner, and does not end in a runtime error.
C38_HijackOneShot ==
    [][CallAfterHijack =>
         /\ pc' # "panic"
         /\ last'.conn = "nil"
         /\ last'.op = "Hijack" => last'.err # "nil"
         /\ last'.op = "Respond" => last'.ret = "nil"
         /\ c'.hijacked]_vars

\* C38: Hijack was called on a hijacked connection and ended in a runtime
\* error.
C38_Witness ==
    /\ c.hijacked
    /\ last.op = "Hijack"
    /\ pc = "panic"

\* After a successful Hijack no call hands out the socket again, Respond
\* returns a nil writer, and the connection stays hijacked.
HijackKept ==
    [][CallAfterHijack =>
         /\ last'.conn = "nil"
         /\ last'.op = "Respond" => (last'.ret = "nil" /\ pc' # "panic")
         /\ c'.hijacked]_vars

\* ------------------------------------------------------------------------
\* The life of the socket
\* ------------------------------------------------------------------------

\* The client has sent its last request and closed its side: ReadSlice in
\* parseRequestLine returns os.EOF, prepare fails, the loop ends and the
\* socket is closed.
PrepareEOF ==
    /\ pc = "prepare"
    /\ cycles = MaxCycles
    /\ pc' = "closed"
    /\ closes' = closes + 1
    /\ UNCHANGED <<form, outgoing, chat, parsing, input, rd, router, ws>>
    /\ UNCHANGED <<cycles, broken, c, req, bw, wire, ops, last, bodyRead,
                   bodyWritten, respondArg, finished>>

\* What the clients of the life of the socket send for one request: a
\* request that keeps the connection, one that asks for the close, one of
\* HTTP/1.0, a request line that does not parse and a header line that is
\* only a key, with the empty line or ending before it.
LifeRequestLines ==
    { StrGET \o <<" ", "/", " ">> \o ProtoHTTP11 \o StrCRLF,
      StrGET \o <<" ", "/", " ">> \o ProtoHTTP10 \o StrLF,
      StrGET \o <<" ", "/">> \o StrCRLF }
LifeHeaderBlocks ==
    { <<>>,
      <<HeaderConnection \o <<":", " ">> \o StrClose \o StrCRLF>>,
      <<HeaderContentLength \o <<":", " ", "2">> \o StrCRLF>>,
      <<HeaderContentLength \o <<":", " ", "x">> \o StrCRLF>>,
      <<HeaderCookie \o StrCRLF>> }
LifeInputs ==
    {<<rl>> \o hs \o end :
        rl \in LifeRequestLines, hs \in LifeHeaderBlocks,
        end \in {<<StrCRLF>>, <<>>}}

InitLife ==
    /\ InitConn
    /\ input \in LifeInputs
    /\ rd = NoReader
    /\ router = NoRouter
    /\ ws = NoWebSocket
    /\ form = NoForm
    /\ outgoing = NoOut
    /\ chat = NoChat
    /\ parsing = NoParsing

\* serveConnection on the requests of a client that sends input up to
\* MaxCycles times and then closes its side.
NextLife ==
    \/ PrepareInput
    \/ PrepareEOF
    \/ HandlerHijack
    \/ HandlerReturn
    \/ NextRequest

\* The step of NextLife in which prepare returns, and the one in which the
\* handler returns.
PrepareReturned ==
    pc = "prepare" /\ cycles < MaxCycles /\ pc' \in {"handler", "closed", "panic"}
HandlerReturned ==
    pc = "handler" /\ pc' \in {"served", "closed", "hijacked"}

\* Weak fairness of PrepareInput and of HandlerReturn, their enabling
\* conditions written out: the client's bytes arrive and prepare returns,
\* and the handler returns.
PrepareFair ==
    []<>~(pc = "prepare" /\ cycles < MaxCycles) \/ []<><<PrepareReturned>>_vars
HandlerFair ==
    []<>(pc # "handler") \/ []<><<HandlerReturned>>_vars

\* The goroutine of the connection is scheduled as long as it can take a
\* step: the client's bytes or the end of its stream arrive, the handler
\* returns, and the loop goes on.
SpecLife ==
    /\ InitLife
    /\ [][NextLife]_vars
    /\ PrepareFair
    /\ HandlerFair
    /\ WF_vars(PrepareEOF)
    /\ WF_vars(NextRequest)

\* The loop of serveConnection has ended after a hijack.
EndedHijacked ==
    pc = "hijacked"

\* A runtime error in the handler: the handler does not return.
HandlerPanicked ==
    pc = "panic" /\ req # NoRequest

\* A runtime error in prepare.
PreparePanicked ==
    pc = "panic" /\ req = NoRequest

\* The loop of serveConnection has ended without a hijack.
EndedUnhijacked ==
    pc = "closed" \/ PreparePanicked

\* C39: the life of the socket. On every path by which the loop of the
\* connection's task ends without a hijack the socket is closed exactly
\* once; when every handler returns and the client in the end asks for
\* the close or stops sending, the task terminates with the socket closed
\* (or hijacked); a hijacked socket is not closed by the loop.
C39_SocketLifecycle ==
    /\ [](closes <= 1)
    /\ [](EndedUnhijacked => closes = 1)
    /\ []((EndedHijacked \/ c.hijacked) => closes = 0)
    /\ ([]~HandlerPanicked) => <>(pc = "closed" \/ EndedHijacked)

\* C39: a header line that is a key and nothing else has ended the task
\* in prepare with a runtime error, the socket not closed.
C39_Witness ==
    /\ PreparePanicked
    /\ closes = 0
    /\ cycles = 0

\* Without the runtime error in parseHeader the socket is closed once when
\* the loop ends, never after a hijack, and the task terminates.
LifecycleOfParsed ==
    /\ [](closes <= 1)
    /\ [](pc = "closed" => closes = 1)
    /\ []((EndedHijacked \/ c.hijacked) => closes = 0)
    /\ ([]~(pc = "panic")) => <>(pc = "closed" \/ EndedHijacked)

\* The second request of a client was served and the client then left.
ClosedAtEOF ==
    /\ pc = "closed"
    /\ cycles = MaxCycles
    /\ c = NewConn
    /\ closes = 1

\* ------------------------------------------------------------------------
\* The chat example: hub and chatWsHandler
\* ------------------------------------------------------------------------

\* The chat connections, and the messages one of them publishes.
MaxConns == 2
MaxMessages == 1
ChatConns == 1..MaxConns

\* startHub has started the hub, which waits in its select with an empty
\* map conns; every handler is about to call WebSocketUpgrade. handler is
\* the position of each chatWsHandler, published the messages it has sent
\* to messageChan, gone whether its peer has left, closed the calls of
\* Close on its WebSocketConn, pending the connections the range loop of
\* the hub has still to visit, sendError and sendClosed whether a Send of
\* the hub has failed and whether one was made on a closed connection,
\* and users the tasks that have read or changed conns.
InitChat ==
    /\ InitConn
    /\ input = NoInput
    /\ rd = NoReader
    /\ router = NoRouter
    /\ ws = NoWebSocket
    /\ form = NoForm
    /\ outgoing = NoOut
    /\ parsing = NoParsing
    /\ chat = [hub |-> "select", conns |-> {}, pending |-> {},
               handler |-> [i \in ChatConns |-> "upgrade"],
               published |-> [i \in ChatConns |-> 0],
               gone |-> [i \in ChatConns |-> FALSE],
               closed |-> [i \in ChatConns |-> 0],
               sendError |-> FALSE, sendClosed |-> FALSE, users |-> {}]

\* A step of the chat example leaves the connection loop alone.
ChatStep ==
    UNCHANGED <<connVars, form, outgoing, parsing, input, rd, router, ws>>

\* chatWsHandler: web.WebSocketUpgrade(req) gives the connection, or an
\* error, and then the handler returns.
ChatUpgrade ==
    /\ \E i \in ChatConns, ok \in BOOLEAN :
         /\ chat.handler[i] = "upgrade"
         /\ chat' = [chat EXCEPT !.handler[i] = IF ok THEN "subscribe"
                                               ELSE "failed"]
    /\ ChatStep

\* subscriptionChan <- subscription{conn, true} of a handler meets the
\* receive in the select of the hub, which puts the connection into conns.
ChatSubscribe ==
    /\ chat.hub = "select"
    /\ \E i \in ChatConns :
         /\ chat.handler[i] = "subscribe"
         /\ chat' = [chat EXCEPT !.handler[i] = "receive",
                                 !.conns = chat.conns \cup {i},
                                 !.users = chat.users \cup {"hub"}]
    /\ ChatStep

\* conn.Receive() of a handler returns a message.
ChatReceive ==
    /\ \E i \in ChatConns :
         /\ chat.handler[i] = "receive"
         /\ ~chat.gone[i]
         /\ chat.closed[i] = 0
         /\ chat.published[i] < MaxMessages
         /\ chat' = [chat EXCEPT !.handler[i] = "publish"]
    /\ ChatStep

\* conn.Receive() of a handler returns an error (the peer has gone, the
\* connection is closed, or a frame is not a text frame): the loop ends
\* and the deferred function starts.
ChatReceiveError ==
    /\ \E i \in ChatConns :
         /\ chat.handler[i] = "receive"
         /\ chat' = [chat EXCEPT !.handler[i] = "unsubscribe"]
    /\ ChatStep

\* messageChan <- mp of a handler meets the receive in the select of the
\* hub, which starts its range over conns.
ChatPublish ==
    /\ chat.hub = "select"
    /\ \E i \in ChatConns :
         /\ chat.handler[i] = "publish"
         /\ chat' = [chat EXCEPT !.handler[i] = "receive",
                                 !.published[i] = chat.published[i] + 1,
                                 !.hub = IF chat.conns = {} THEN "select"
                                         ELSE "range",
                                 !.pending = chat.conns,
                                 !.users = chat.users \cup {"hub"}]
    /\ ChatStep

\* The hub, one turn of its range over conns: conn.Send(message), and
\* conn.Close() when Send returned an error, which it does when the peer
\* has gone or the connection is closed. The connection stays in conns.
HubSend ==
    /\ chat.hub = "range"
    /\ \E i \in chat.pending :
         LET err == chat.gone[i] \/ chat.closed[i] > 0
         IN  chat' = [chat EXCEPT
                        !.pending = chat.pending \ {i},
                        !.hub = IF chat.pending = {i} THEN "select" ELSE "range",
                        !.sendClosed = chat.sendClosed \/ chat.closed[i] > 0,
                        !.sendError = chat.sendError \/ err,
                        !.closed[i] = chat.closed[i] + (IF err THEN 1 ELSE 0)]
    /\ ChatStep

\* The deferred function of a handler, its first statement:
\* subscriptionChan <- subscription{conn, false} meets the receive in the
\* select of the hub, which takes the connection out of conns.
ChatUnsubscribe ==
    /\ chat.hub = "select"
    /\ \E i \in ChatConns :
         /\ chat.handler[i] = "unsubscribe"
         /\ chat' = [chat EXCEPT !.handler[i] = "close",
                                 !.conns = chat.conns \ {i},
                                 !.users = chat.users \cup {"hub"}]
    /\ ChatStep

\* The deferred function of a handler, its second statement: conn.Close();
\* the handler returns.
ChatClose ==
    /\ \E i \in ChatConns :
         /\ chat.handler[i] = "close"
         /\ chat' = [chat EXCEPT !.handler[i] = "returned",
                                 !.closed[i] = chat.closed[i] + 1]
    /\ ChatStep

\* The peer of a chat connection goes away.
PeerGone ==
    /\ \E i \in ChatConns :
         /\ chat.handler[i] \in {"receive", "publish"}
         /\ ~chat.gone[i]
         /\ chat' = [chat EXCEPT !.gone[i] = TRUE]
    /\ ChatStep

NextChat ==
    \/ ChatUpgrade
    \/ ChatSubscribe
    \/ ChatReceive
    \/ ChatReceiveError
    \/ ChatPublish
    \/ HubSend
    \/ ChatUnsubscribe
    \/ ChatClose
    \/ PeerGone

SpecChat == InitChat /\ [][NextChat]_vars

\* Every connection was closed at most once, and once when its handler
\* has returned.
ClosedOnce ==
    \A i \in ChatConns :
       /\ chat.closed[i] <= 1
       /\ chat.handler[i] = "returned" => chat.closed[i] = 1

\* C40: the chat hub. Under every interleaving of the handlers and the
\* hub the subscriber set is read and changed by the hub alone, the hub
\* does not call Send on a connection that was closed, by the hub itself
\* after a send error or by the connection's handler, and every
\* connection is closed exactly once.
C40_ChatHub ==
    /\ chat.users \subseteq {"hub"}
    /\ ~chat.sendClosed
    /\ ClosedOnce

\* C40: the peer of a connection has gone; the hub closed the connection
\* after its Send failed, sent on it again for the next message and closed
\* it again, and the handler closed it once more.
C40_Witness ==
    \E i \in ChatConns :
       /\ chat.gone[i]
       /\ chat.sendClosed
       /\ chat.handler[i] = "returned"
       /\ chat.closed[i] = 3

\* As long as no Send of the hub fails, the hub sends on open connections
\* only and no connection is closed twice; the hub alone uses conns.
ChatWithoutSendError ==
    /\ chat.users \subseteq {"hub"}
    /\ ~chat.sendError => (~chat.sendClosed /\ ClosedOnce)

\* A handler closed its connection and a message was sent afterwards: the
\* hub did not send on the closed connection.
SentAfterHandlerClose ==
    \E i, j \in ChatConns :
       /\ chat.handler[i] = "returned"
       /\ chat.closed[i] = 1
       /\ chat.published[j] = MaxMessages
       /\ chat.hub = "select"
       /\ ~chat.sendClosed

====
